---- MODULE Spec2Model ----
(***************************************************************************)
(* A model of the calendar core of Semana: the Neri-Schneider date         *)
(* arithmetic (crates/calendar/src/date.rs), the crate-root date           *)
(* difference used by the agenda code (crates/calendar/src/lib.rs), the    *)
(* event classification and the agenda loop, and the clash/lane            *)
(* resolution (crates/calendar/src/obtain.rs).                             *)
(*                                                                         *)
(* Four specifications share the module, one per subsystem:                *)
(*   SpecDate    the loop of eafs::test over every valid date              *)
(*   SpecFilter  short_event_filter applied to one raw event               *)
(*   SpecObtain  the agenda loop of obtain                                 *)
(*   SpecClash   the event loop of find_clashes                            *)
(***************************************************************************)
EXTENDS Integers, Sequences, FiniteSets, TLC

VARIABLES
    \* eafs round trip (SpecDate)
    input_date,      \* the Date the loop is at
    rata_die,        \* calculate_rata_die_from_gregorian_calendar(input_date)
    date,            \* calculate_gregorian_date(rata_die)
    last_rata_die,   \* Option<i32>: <<>> is None, <<x>> is Some(x)
    dpc,             \* position of the loop body
    \* short_event_filter (SpecFilter)
    f_event,         \* the raw Event handed to short_event_filter
    f_date,          \* the day of the agenda line it came from
    f_type,          \* the EventType determine_event_type returned
    f_result,        \* what short_event_filter returned
    fpc,
    \* obtain (SpecObtain)
    duration_days,   \* ObtainArguments::duration_days
    date_stream,     \* DateStream::last_date, the date the next agenda line gets
    o_line,          \* agenda lines taken so far
    agenda,          \* the EventVec parsed from the line being processed
    short,           \* week_schedule.short
    long,            \* week_schedule.long
    short_src,       \* history: <<line, index>> each element of short came from
    long_src,        \* history: <<line, index>> each element of long came from
    o_result,        \* "" while running, then "Ok" or the Error variant
    source_calls,    \* history: calls of agenda_source.obtain
    parse_calls,     \* history: calls of json_parser.parse
    o_dates,         \* history: the dates of the items of `agendas` parsed
    o_plain,         \* history: every agenda line parsed is one of PlainLines
    o_rest,          \* the pieces of the split output left when the loop ends
    o_source,        \* history: what agenda_source.obtain gave back
    opc,
    \* find_clashes and get_lanes (SpecClash)
    condition,       \* "short" or "long": the ClashCondition passed
    events,          \* the events the loop has taken from its input so far
    last_clash,      \* Clash {event_ends, lanes, end}
    current_date,
    lane_count,
    ret,             \* Vec<(Lane, Lane)>
    assigned,        \* history: the rect_lane each event got, in input order
    event_data,      \* the EventData get_lanes builds from events and ret
    cpc,
    \* calls of the Date methods and of DateStream (SpecArith)
    a_date,          \* self
    a_days,          \* the i16 argument of add_days
    a_other,         \* the other Date of subtract
    a_ret,           \* what the call returned
    a_diff,          \* a_ret.date.subtract(a_date), taken after add_days; after
                     \* SubtractDates, the difference by Date::subtract of lib.rs
    s_last,          \* DateStream::last_date
    s_pulled,        \* the values pulled from the DateStream so far
    apc,
    \* the application's calendar state (SpecApp)
    w_today,         \* the local date of `now`
    w_hour,          \* the local hour of `now`
    w_shift,         \* hours by which the local UTC offset at now + offset_ns
                     \* differs from the one at now (daylight saving time)
    week_start,      \* calendar.week_start
    w_moves,         \* add_week / subtract_week calls so far
    wpc,
    \* short_event_rectangles of render.rs (SpecRender)
    r_first_date,    \* first_date
    r_arguments,     \* Arguments {column_width, column_height, offset_x, offset_y}
    r_events,        \* the short_events the loop has taken so far
    last_atasco,     \* Atasco {rectangles, lanes, end}
    r_lane_count,    \* lane_count
    absciss,
    r_ret,           \* ret: the Rectangles built
    r_lanes,         \* history: <<lane, lane_count>> each element of r_ret was flushed with
    rpc,
    \* the main loop of the application (SpecMain)
    m_week_start,    \* Calendar::week_start
    is_week_switched,
    week_data,       \* the week_start the agenda of Calendar::week_data was fetched for
    window_size,
    adjustment,      \* UserInterface::adjustment: vertical_scale, vertical_offset
    short_event_rectangles_opt,  \* <<>> is None; Some holds what it was computed from
    long_event_rectangles_opt,
    short_stale,     \* history: week, window or adjustment changed since the short
                     \* rectangles were computed
    long_stale,      \* the same for the long rectangles
    m_event,         \* history: the event handled last
    mpc

date_vars == <<input_date, rata_die, date, last_rata_die, dpc>>

filter_vars == <<f_event, f_date, f_type, f_result, fpc>>

obtain_vars == <<duration_days, date_stream, o_line, agenda, short, long,
                 short_src, long_src, o_result, source_calls, parse_calls,
                 o_dates, o_plain, o_rest, o_source, opc>>

clash_vars == <<condition, events, last_clash, current_date, lane_count, ret,
                assigned, event_data, cpc>>

arith_vars == <<a_date, a_days, a_other, a_ret, a_diff, s_last, s_pulled, apc>>

app_vars == <<w_today, w_hour, w_shift, week_start, w_moves, wpc>>

render_vars == <<r_first_date, r_arguments, r_events, last_atasco, r_lane_count,
                 absciss, r_ret, r_lanes, rpc>>

main_vars == <<m_week_start, is_week_switched, week_data, window_size, adjustment,
               short_event_rectangles_opt, long_event_rectangles_opt, short_stale,
               long_stale, m_event, mpc>>

vars == <<date_vars, filter_vars, obtain_vars, clash_vars, arith_vars, app_vars,
          render_vars, main_vars>>

\* what the actions of one subsystem leave alone
beside_date == <<filter_vars, obtain_vars, clash_vars, arith_vars, app_vars,
                 render_vars, main_vars>>

beside_filter == <<date_vars, obtain_vars, clash_vars, arith_vars, app_vars,
                   render_vars, main_vars>>

beside_obtain == <<date_vars, filter_vars, clash_vars, arith_vars, app_vars,
                   render_vars, main_vars>>

beside_clash == <<date_vars, filter_vars, obtain_vars, arith_vars, app_vars,
                  render_vars, main_vars>>

beside_arith == <<date_vars, filter_vars, obtain_vars, clash_vars, app_vars,
                  render_vars, main_vars>>

beside_app == <<date_vars, filter_vars, obtain_vars, clash_vars, arith_vars,
                render_vars, main_vars>>

beside_render == <<date_vars, filter_vars, obtain_vars, clash_vars, arith_vars,
                   app_vars, main_vars>>

beside_main == <<date_vars, filter_vars, obtain_vars, clash_vars, arith_vars, app_vars,
                 render_vars>>

(***************************************************************************)
(* Integer helpers: Rust's / and % truncate toward zero.                   *)
(***************************************************************************)
Abs(x) == IF x < 0 THEN -x ELSE x

TruncDiv(a, b) ==
    IF (a >= 0) = (b > 0) THEN Abs(a) \div Abs(b) ELSE -(Abs(a) \div Abs(b))

TruncRem(a, b) == a - b * TruncDiv(a, b)

Max(a, b) == IF a >= b THEN a ELSE b

U16_MAX == 65535

U8_MAX == 255

(***************************************************************************)
(* crates/calendar/src/date.rs                                             *)
(***************************************************************************)
MINUTES_PER_HOUR == 60

MINUTES_PER_DAY == MINUTES_PER_HOUR * 24

Date(y, m, d) == [year |-> y, month |-> m, day |-> d]

is_leap_year(year) ==
    year % 4 = 0 /\ (year % 100 # 0 \/ year % 400 = 0)

month_day_count(year, month) ==
    CASE month = 2 -> IF is_leap_year(year) THEN 29 ELSE 28
      [] month \in {4, 6, 9, 11} -> 30
      [] OTHER -> 31

\* Date::try_new: TRUE when it returns Ok(Date {year, month, day})
try_new(year, month, day) ==
    /\ ~(year < 1)
    /\ (month > 0 /\ month <= 12)
    /\ (day > 0 /\ day <= month_day_count(year, month))

\* `year + 1` is u16 arithmetic: past u16::MAX it panics in a build with
\* overflow checks and wraps to 0 in a build without them
increment_date_overflows(d) ==
    /\ d.day + 1 > month_day_count(d.year, d.month)
    /\ d.month + 1 = 13
    /\ d.year + 1 > U16_MAX

\* a faulty variant: the last day of a month is repeated
increment_date_month_end_twice(d) ==
    IF d.day > month_day_count(d.year, d.month)
    THEN IF d.month + 1 = 13
         THEN Date((d.year + 1) % (U16_MAX + 1), 1, 1)
         ELSE Date(d.year, d.month + 1, 1)
    ELSE Date(d.year, d.month, IF d.day + 1 > month_day_count(d.year, d.month)
                               THEN d.day ELSE d.day + 1)

\* the Date it returns when it does not panic
increment_date(d) ==
    IF d.day + 1 > month_day_count(d.year, d.month)
    THEN IF d.month + 1 = 13
         THEN Date((d.year + 1) % (U16_MAX + 1), 1, 1)
         ELSE Date(d.year, d.month + 1, 1)
    ELSE Date(d.year, d.month, d.day + 1)

\* eafs::calculate_rata_die_from_gregorian_calendar, before its assertion
rata_die_value(d) ==
    LET j == IF d.month <= 2 THEN 1 ELSE 0
        y == d.year - j
        m == d.month + 12 * j
        dd == d.day - 1
        c == TruncDiv(y, 100)
        ystar == TruncDiv(1461 * y, 4) - c + TruncDiv(c, 4)
        mstar == TruncDiv(153 * m - 457, 5)
    IN  ystar + mstar + dd

\* assert!(ret >= 0), and no underflow of the u16 year and the u8 day
rata_die_asserts(d) ==
    /\ d.year - (IF d.month <= 2 THEN 1 ELSE 0) >= 0
    /\ d.day - 1 >= 0
    /\ rata_die_value(d) >= 0

\* a faulty variant: only January is moved to the end of the previous year
rata_die_january_only(d) ==
    LET j == IF d.month < 2 THEN 1 ELSE 0
        y == d.year - j
        m == d.month + 12 * j
        dd == d.day - 1
        c == TruncDiv(y, 100)
        ystar == TruncDiv(1461 * y, 4) - c + TruncDiv(c, 4)
        mstar == TruncDiv(153 * m - 457, 5)
    IN  ystar + mstar + dd

calculate_rata_die_from_gregorian_calendar(d) == rata_die_value(d)

\* eafs::calculate_gregorian_date: the (year, month, day) it computes
gregorian_value(rd) ==
    LET n1 == 4 * rd + 3
        n2 == 3 + 4 * TruncDiv(TruncRem(n1, 146097), 4)
        n3 == 461 + 5 * TruncDiv(TruncRem(n2, 1461), 4)
        m == TruncDiv(n3, 153)
        j == IF m >= 13 THEN 1 ELSE 0
        year == j + (100 * TruncDiv(n1, 146097) + TruncDiv(n2, 1461))
        month == m - 12 * j
        day == 1 + TruncDiv(TruncRem(n3, 153), 5)
    IN  Date(year, month, day)

\* its assertions and the expect on Date::try_new
gregorian_asserts(rd) ==
    LET g == gregorian_value(rd)
    IN  /\ rd >= 0
        /\ g.year >= 0 /\ g.month >= 0 /\ g.day >= 0
        /\ g.year <= U16_MAX /\ g.month <= U8_MAX /\ g.day <= U8_MAX
        /\ try_new(g.year, g.month, g.day)

\* a faulty variant: month 13 (January) is not carried into the next year
gregorian_no_january_carry(rd) ==
    LET n1 == 4 * rd + 3
        n2 == 3 + 4 * TruncDiv(TruncRem(n1, 146097), 4)
        n3 == 461 + 5 * TruncDiv(TruncRem(n2, 1461), 4)
        m == TruncDiv(n3, 153)
        j == IF m > 13 THEN 1 ELSE 0
        year == j + (100 * TruncDiv(n1, 146097) + TruncDiv(n2, 1461))
        month == m - 12 * j
        day == 1 + TruncDiv(TruncRem(n3, 153), 5)
    IN  Date(year, month, day)

calculate_gregorian_date(rd) == gregorian_value(rd)

calculate_total_days(d) == calculate_rata_die_from_gregorian_calendar(d)

\* a faulty variant: the operands are swapped
subtract_reversed(a, b) == calculate_total_days(b) - calculate_total_days(a)

subtract(a, b) == calculate_total_days(a) - calculate_total_days(b)

(***************************************************************************)
(* eafs::test: test_roundtrip and test_invariant walk every (y, m, d) with *)
(* y in FirstYear..=LastYear, m in 1..=12, d in 1..=31 that Date::try_new  *)
(* accepts, in loop order; one action is one execution of the loop body.   *)
(***************************************************************************)
FirstYear == 1

LastYear == 2100

NoDate == Date(0, 0, 0)

\* The next (y, m, d) for which the loop body runs: `for d in 1..=31` goes on
\* to d + 1 when Date::try_new accepts it; once try_new rejects a day (d > day_max)
\* it rejects every later day of that month, and the loops go on to day 1 of the
\* next month (`for m in 1..=12`) or of the next year's January.
next_input(d) ==
    IF try_new(d.year, d.month, d.day + 1)
    THEN Date(d.year, d.month, d.day + 1)
    ELSE IF d.month < 12
         THEN Date(d.year, d.month + 1, 1)
         ELSE Date(d.year + 1, 1, 1)

DateInit ==
    /\ input_date = NoDate
    /\ rata_die = 0
    /\ date = NoDate
    /\ last_rata_die = <<>>
    /\ dpc = "start"

DateIdle ==
    /\ input_date = NoDate
    /\ rata_die = 0
    /\ date = NoDate
    /\ last_rata_die = <<>>
    /\ dpc = "idle"

\* One loop body of the two tests:
\*   let rata_die = calculate_rata_die_from_gregorian_calendar(&input_date);
\*   let date = calculate_gregorian_date(rata_die);          (test_roundtrip)
\*   last_rata_die.replace(rata_die)                         (test_invariant)
TestIteration ==
    /\ dpc \in {"start", "loop"}
    /\ \E d \in {IF dpc = "start" THEN Date(FirstYear, 1, 1) ELSE next_input(input_date)} :
           /\ d.year <= LastYear
           /\ input_date' = d
           /\ IF ~rata_die_asserts(d)
              THEN /\ dpc' = "panic"
                   /\ UNCHANGED <<rata_die, date, last_rata_die>>
              ELSE \E rd \in {calculate_rata_die_from_gregorian_calendar(d)} :
                       /\ rata_die' = rd
                       /\ last_rata_die' = IF dpc = "start" THEN <<>> ELSE <<rata_die>>
                       /\ IF gregorian_asserts(rd)
                          THEN /\ date' = calculate_gregorian_date(rd)
                               /\ dpc' = "loop"
                          ELSE /\ date' = NoDate
                               /\ dpc' = "panic"
    /\ UNCHANGED beside_date

DateNext == TestIteration

(***************************************************************************)
(* crates/calendar/src/lib.rs: the crate root's own Date, the one          *)
(* obtain.rs imports (use super::Date), with its date difference.          *)
(***************************************************************************)
Time(h, m) == [hour |-> h, minute |-> m]

midnight == Time(0, 0)

last_minute == Time(23, 59)

total_minutes(t) == t.hour * MINUTES_PER_HOUR + t.minute

\* let month_days = [1, 28, 31, 30, 31, 30, 31, 31, 30, 31, 30, 31]
month_days == <<1, 28, 31, 30, 31, 30, 31, 31, 30, 31, 30, 31>>

\* for m in 1..(self.month as usize) { total_days += month_days[m - 1] }
RECURSIVE month_days_before(_)
month_days_before(month) ==
    IF month <= 1 THEN 0 ELSE month_days_before(month - 1) + month_days[month - 1]

EPOCH_START == 1970

days_from_epoch(d) ==
    LET years_since_the_start == d.year - EPOCH_START
    IN  years_since_the_start * 365
        + TruncDiv(years_since_the_start, 4)
        - TruncDiv(years_since_the_start, 100)
        + TruncDiv(years_since_the_start, 400)
        + month_days_before(d.month)
        + d.day
        + (IF d.month > 2 /\ is_leap_year(d.year) THEN 1 ELSE 0)

\* Date::subtract of lib.rs
root_subtract(a, b) == days_from_epoch(a) - days_from_epoch(b)

(***************************************************************************)
(* crates/calendar/src/obtain.rs: classification of one raw event          *)
(***************************************************************************)
Event(title, sd, st, ed, et, all_day, color) ==
    [title |-> title, start_date |-> sd, start_time |-> st, end_date |-> ed,
     end_time |-> et, all_day |-> all_day, calendar_color |-> color]

FULL_DAY == 24 * 60

\* "Short", "Long", "CrossNight", or "panic" when assert!(event_duration_days >= 0) fails
determine_event_type(event, is_all_day) ==
    LET event_duration_days == root_subtract(event.end_date, event.start_date)
        event_duration_to_midnight ==
            FULL_DAY - event.start_time.hour * 60 - event.start_time.minute
        event_duration_after_midnight ==
            event.end_time.hour * 60 + event.end_time.minute
        event_duration == event_duration_to_midnight + event_duration_after_midnight
    IN  IF ~(event_duration_days >= 0) THEN "panic"
        ELSE CASE event_duration_days = 0 /\ is_all_day -> "Long"
               [] event_duration_days = 0 /\ ~is_all_day -> "Short"
               [] event_duration_days = 1 ->
                      IF event_duration >= FULL_DAY THEN "Long" ELSE "CrossNight"
               [] OTHER -> "Long"

Panic == [kind |-> "panic"]

None == [kind |-> "None"]

Some(is_short, event) == [kind |-> "Some", is_short |-> is_short, event |-> event]

\* the cropped Event, or Panic
\* a faulty variant: the second half keeps the original start time
crop_event_keeps_start(d, event) ==
    IF d = event.start_date
    THEN Event(event.title, event.start_date, event.start_time,
               event.start_date, last_minute, event.all_day, event.calendar_color)
    ELSE IF d = event.end_date
         THEN Event(event.title, event.end_date, event.start_time,
                    event.end_date, event.end_time, event.all_day, event.calendar_color)
         ELSE Panic

crop_event(d, event) ==
    IF d = event.start_date
    THEN Event(event.title, event.start_date, event.start_time,
               event.start_date, last_minute, event.all_day, event.calendar_color)
    ELSE IF d = event.end_date
         THEN Event(event.title, event.end_date, midnight,
                    event.end_date, event.end_time, event.all_day, event.calendar_color)
         ELSE Panic

\* if is_all_day { event.start_time = Time::midnight(); event.end_time = Time::last_minute() }
normalize_all_day(event, is_all_day) ==
    IF is_all_day
    THEN [event EXCEPT !.start_time = midnight, !.end_time = last_minute]
    ELSE event

\* Option<(bool, Event)>, or Panic
\* a faulty variant: a long event is kept on every day it is listed
short_event_filter_keeps_long(raw, d) ==
    IF raw.all_day \notin {"True", "False"} THEN Panic
    ELSE LET is_all_day == raw.all_day = "True"
             event == normalize_all_day(raw, is_all_day)
             event_type == determine_event_type(event, is_all_day)
         IN  CASE event_type = "panic" -> Panic
               [] event_type = "Short" -> Some(TRUE, event)
               [] event_type = "Long" -> Some(FALSE, event)
               [] event_type = "CrossNight" ->
                      IF crop_event(d, event) = Panic THEN Panic
                      ELSE Some(TRUE, crop_event(d, event))

short_event_filter(raw, d) ==
    IF raw.all_day \notin {"True", "False"} THEN Panic
    ELSE LET is_all_day == raw.all_day = "True"
             event == normalize_all_day(raw, is_all_day)
             event_type == determine_event_type(event, is_all_day)
         IN  CASE event_type = "panic" -> Panic
               [] event_type = "Short" -> Some(TRUE, event)
               [] event_type = "Long" ->
                      IF event.start_date = d THEN Some(FALSE, event) ELSE None
               [] event_type = "CrossNight" ->
                      IF crop_event(d, event) = Panic THEN Panic
                      ELSE Some(TRUE, crop_event(d, event))

\* the EventType short_event_filter works with ("none" when it stops before)
filter_event_type(raw) ==
    IF raw.all_day \notin {"True", "False"} THEN "none"
    ELSE determine_event_type(normalize_all_day(raw, raw.all_day = "True"),
                              raw.all_day = "True")

(***************************************************************************)
(* SpecFilter: short_event_filter applied once to a raw event of an agenda *)
(* line.  The dates cross a month end, a year end and a leap February.     *)
(***************************************************************************)
FilterDates ==
    {Date(2025, 10, 27), Date(2025, 10, 28), Date(2025, 10, 29),
     Date(2025, 1, 2), Date(2025, 1, 31), Date(2025, 2, 1), Date(2024, 2, 29),
     Date(2024, 3, 1), Date(2025, 12, 31), Date(2026, 1, 1)}

FilterTimes == {Time(0, 0), Time(1, 0), Time(12, 30), Time(23, 0), Time(23, 59)}

FilterFlags == {"True", "False", ""}

FilterTitles == {"standup", "trip"}

BLACK == 255

FilterInit ==
    /\ f_event \in {Event(t, sd, st, ed, et, ad, BLACK) :
                      t \in FilterTitles, sd \in FilterDates, st \in FilterTimes,
                      ed \in FilterDates, et \in FilterTimes, ad \in FilterFlags}
    /\ f_date \in FilterDates
    /\ f_type = "none"
    /\ f_result = None
    /\ fpc = "call"

FilterIdle ==
    /\ f_event = None
    /\ f_date = NoDate
    /\ f_type = "none"
    /\ f_result = None
    /\ fpc = "idle"

ShortEventFilter ==
    /\ fpc = "call"
    /\ f_type' = filter_event_type(f_event)
    /\ f_result' = short_event_filter(f_event, f_date)
    /\ fpc' = IF short_event_filter(f_event, f_date) = Panic THEN "panic" ELSE "returned"
    /\ UNCHANGED <<f_event, f_date>>
    /\ UNCHANGED beside_filter

FilterNext == ShortEventFilter

(***************************************************************************)
(* crates/calendar/src/obtain.rs: obtain                                   *)
(***************************************************************************)
MAX_DURATION_DAYS == 35

\* .take(7) on the lines and on the DateStream
AGENDA_DAYS == 7

\* a faulty variant: 35 days are too many already
duration_is_too_big_from_35(duration) == duration >= MAX_DURATION_DAYS

\* if arguments.duration_days > MAX_DURATION_DAYS
duration_is_too_big(duration) == duration > MAX_DURATION_DAYS

\* a faulty variant: the element goes to the front
push_front(list, x) == <<x>> \o list

push(list, x) == Append(list, x)

RECURSIVE extend(_, _)
extend(list, items) ==
    IF items = <<>> THEN list ELSE extend(push(list, Head(items)), Tail(items))

\* the indices of `line`, in order, whose event short_event_filter keeps with
\* the flag is_short
RECURSIVE kept_indices(_, _, _, _)
kept_indices(line, i, d, is_short) ==
    IF i > Len(line) THEN <<>>
    ELSE LET r == short_event_filter(line[i], d)
         IN  (IF r.kind = "Some" /\ r.is_short = is_short THEN <<i>> ELSE <<>>)
             \o kept_indices(line, i + 1, d, is_short)

kept_events(line, d, is_short) ==
    LET idx == kept_indices(line, 1, d, is_short)
    IN  [k \in 1..Len(idx) |-> short_event_filter(line[idx[k]], d).event]

kept_sources(line, n, d, is_short) ==
    LET idx == kept_indices(line, 1, d, is_short)
    IN  [k \in 1..Len(idx) |-> <<n, idx[k]>>]

line_panics(line, d) == \E i \in 1..Len(line) : short_event_filter(line[i], d) = Panic

(***************************************************************************)
(* SpecObtain: one fetch of a week starting at WeekFrom.  The backend      *)
(* prints up to MaxLines agenda lines of up to MaxAgenda events each; a    *)
(* line lists an event at most once.  The backend is not trusted to list   *)
(* an event only on its own days: "party" on the line of 2025-10-27 is the *)
(* input on which crop_event panics.                                       *)
(***************************************************************************)
MaxLines == 2

MaxAgenda == 2

WeekFrom == Date(2025, 10, 27)

RawEvents ==
    {Event("standup", Date(2025, 10, 27), Time(10, 0), Date(2025, 10, 27), Time(11, 0), "False", BLACK),
     Event("trip", Date(2025, 10, 27), Time(9, 0), Date(2025, 11, 3), Time(18, 0), "False", BLACK),
     Event("holiday", Date(2025, 10, 28), Time(0, 0), Date(2025, 10, 28), Time(0, 0), "True", BLACK),
     Event("party", Date(2025, 10, 28), Time(23, 0), Date(2025, 10, 29), Time(1, 0), "False", BLACK),
     Event("fair", Date(2025, 10, 26), Time(8, 0), Date(2025, 10, 28), Time(20, 0), "False", BLACK)}

Injective(q) == \A i, j \in 1..Len(q) : i # j => q[i] # q[j]

AgendaLines ==
    {q \in UNION {[1..n -> RawEvents] : n \in 0..MaxAgenda} : Injective(q)}

\* ObtainArguments::duration_days, on the two sides of the guard
DurationChoices == {MAX_DURATION_DAYS, MAX_DURATION_DAYS + 1}

\* agenda lines of the outputs that have more than MaxLines lines
PlainLines ==
    {<<>>,
     <<Event("standup", Date(2025, 10, 27), Time(10, 0), Date(2025, 10, 27), Time(11, 0),
             "False", BLACK)>>}

\* The lines the next piece of the output is drawn from: any of AgendaLines
\* in the first MaxLines pieces, and after them one of PlainLines, in an
\* output that has only such lines.
NextLines ==
    IF o_line < MaxLines
    THEN AgendaLines
    ELSE IF o_plain THEN PlainLines ELSE {}

\* What bytes.split('\n') still holds when the loop ends: "" is an empty piece
\* (as after a trailing newline), "[]" a piece that is not empty.
RestChoices == {<<>>, <<"">>, <<"[]">>, <<"", "[]">>, <<"", "[]", "">>, <<"[]", "">>}

\* An output with a line that is not one of PlainLines ends with the newline
\* after its last line.
NextRests == IF o_plain THEN RestChoices ELSE {<<"">>}

ObtainInit ==
    /\ duration_days \in DurationChoices
    /\ date_stream = WeekFrom
    /\ o_line = 0
    /\ agenda = <<>>
    /\ short = <<>>
    /\ long = <<>>
    /\ short_src = <<>>
    /\ long_src = <<>>
    /\ o_result = ""
    /\ source_calls = 0
    /\ parse_calls = 0
    /\ o_dates = <<>>
    /\ o_plain = TRUE
    /\ o_rest = <<>>
    /\ o_source = "none"
    /\ opc = "start"

ObtainIdle ==
    /\ duration_days = 0
    /\ date_stream = NoDate
    /\ o_line = 0
    /\ agenda = <<>>
    /\ short = <<>>
    /\ long = <<>>
    /\ short_src = <<>>
    /\ long_src = <<>>
    /\ o_result = ""
    /\ source_calls = 0
    /\ parse_calls = 0
    /\ o_dates = <<>>
    /\ o_plain = TRUE
    /\ o_rest = <<>>
    /\ o_source = "none"
    /\ opc = "idle"

\* what agenda_source.obtain gives back: an I/O error, bytes that are not
\* UTF-8, or text
SourceAnswers == {"io_error", "not_utf8", "text"}

\* a faulty variant: the bytes of a failed call are decoded
fetch_error_decodes_first(answer) ==
    IF answer = "text" THEN "" ELSE "InvalidUnicode"

\* lines 185-186: .map_err(Error::Io)? and .map_err(Error::InvalidUnicode)?;
\* "" when neither returns
fetch_error(answer) ==
    IF answer = "io_error" THEN "Io"
    ELSE IF answer = "not_utf8" THEN "InvalidUnicode"
    ELSE ""

\* lines 157-191: the duration guard, the call of the source, from_utf8
ObtainFetch ==
    /\ opc = "start"
    /\ IF duration_is_too_big(duration_days)
       THEN /\ o_result' = "DurationIsTooBig" /\ opc' = "returned"
            /\ UNCHANGED <<source_calls, o_source>>
       ELSE /\ source_calls' = source_calls + 1
            /\ \E answer \in SourceAnswers :
                   /\ o_source' = answer
                   /\ o_result' = fetch_error(answer)
                   /\ opc' = IF fetch_error(answer) = "" THEN "loop" ELSE "returned"
    /\ UNCHANGED <<duration_days, date_stream, o_line, agenda, short, long,
                   short_src, long_src, parse_calls, o_dates, o_plain, o_rest>>
    /\ UNCHANGED beside_obtain

\* lines 199-214: one iteration of `for item in agendas`, the line parsed
AgendaIteration ==
    /\ opc = "loop"
    /\ o_line < AGENDA_DAYS
    /\ \E line \in NextLines :
           /\ agenda' = line
           /\ o_line' = o_line + 1
           /\ parse_calls' = parse_calls + 1
           /\ o_dates' = Append(o_dates, date_stream)
           /\ o_plain' = (o_plain /\ line \in PlainLines)
           /\ date_stream' = increment_date(date_stream)
           /\ IF line_panics(line, date_stream)
              THEN /\ opc' = "panic"
                   /\ UNCHANGED <<short, long, short_src, long_src>>
              ELSE /\ opc' = "loop"
                   /\ short' = extend(short, kept_events(line, date_stream, TRUE))
                   /\ long' = extend(long, kept_events(line, date_stream, FALSE))
                   /\ short_src' = extend(short_src,
                                          kept_sources(line, o_line + 1, date_stream, TRUE))
                   /\ long_src' = extend(long_src,
                                         kept_sources(line, o_line + 1, date_stream, FALSE))
    /\ UNCHANGED <<duration_days, o_result, source_calls, o_rest, o_source>>
    /\ UNCHANGED beside_obtain

\* line 201: json_parser.parse(agenda_json).map_err(Error::Parse)?
AgendaParseError ==
    /\ opc = "loop"
    /\ o_line < AGENDA_DAYS
    /\ o_line < MaxLines
    /\ o_line' = o_line + 1
    /\ date_stream' = increment_date(date_stream)
    /\ agenda' = <<>>
    /\ short' = <<>> /\ long' = <<>> /\ short_src' = <<>> /\ long_src' = <<>>
    /\ parse_calls' = parse_calls + 1
    /\ o_result' = "Parse"
    /\ opc' = "returned"
    /\ UNCHANGED <<duration_days, source_calls, o_dates, o_plain, o_rest, o_source>>
    /\ UNCHANGED beside_obtain

\* lines 193-197 and 216: `agendas` is exhausted, because .take(7) has given
\* seven pieces, or the split has no more pieces, or .take_while has met an
\* empty piece: Ok(week_schedule)
ObtainReturn ==
    /\ opc = "loop"
    /\ \E rest \in NextRests :
           /\ \/ o_line = AGENDA_DAYS
              \/ rest = <<>>
              \/ rest # <<>> /\ Head(rest) = ""
           /\ o_rest' = rest
    /\ o_result' = "Ok"
    /\ opc' = "returned"
    /\ UNCHANGED <<duration_days, date_stream, o_line, agenda, short, long,
                   short_src, long_src, source_calls, parse_calls, o_dates, o_plain,
                   o_source>>
    /\ UNCHANGED beside_obtain

ObtainNext == ObtainFetch \/ AgendaIteration \/ AgendaParseError \/ ObtainReturn

(***************************************************************************)
(* crates/calendar/src/obtain.rs: Clash, find_free_lane, find_clashes,     *)
(* get_lanes                                                               *)
(***************************************************************************)
\* Clash::default()
ClashDefault == [event_ends |-> <<>>, lanes |-> <<>>, end |-> 0]

\* a faulty variant: the total is the number of members, not of lanes
flush_member_count(clash, into, count) ==
    into \o [i \in 1..Len(clash.lanes) |-> <<clash.lanes[i], Len(clash.lanes)>>]

\* Clash::flush: what `into` holds afterwards (the Clash itself is reset to
\* its default by the caller's use of ClashDefault)
flush(clash, into, count) ==
    into \o [i \in 1..Len(clash.lanes) |-> <<clash.lanes[i], count>>]

\* a faulty variant: the lane goes to the front of lanes
clash_push_front(clash, event_end, lane) ==
    [event_ends |-> Append(clash.event_ends, event_end),
     lanes |-> <<lane>> \o clash.lanes,
     end |-> Max(clash.end, event_end)]

\* Clash::push
clash_push(clash, event_end, lane) ==
    [event_ends |-> Append(clash.event_ends, event_end),
     lanes |-> Append(clash.lanes, lane),
     end |-> Max(clash.end, event_end)]

\* The fold of find_free_lane over the members with end <= begin, from index i
\* on: acc is <<>> (None) or <<lane_index, end>>.
RECURSIVE free_lane_fold(_, _, _, _)
free_lane_fold(event_ends, i, begin, acc) ==
    IF i > Len(event_ends) THEN acc
    ELSE IF ~(event_ends[i] <= begin)
         THEN free_lane_fold(event_ends, i + 1, begin, acc)
         ELSE IF acc = <<>>
              THEN free_lane_fold(event_ends, i + 1, begin, <<i, event_ends[i]>>)
              ELSE LET acc_diff == begin - acc[2]
                       diff == begin - event_ends[i]
                   IN  IF diff <= acc_diff
                       THEN free_lane_fold(event_ends, i + 1, begin, <<i, event_ends[i]>>)
                       ELSE free_lane_fold(event_ends, i + 1, begin, <<acc[1], event_ends[i]>>)

\* Option<Lane>: <<>> is None, <<lane>> is Some(lane)
find_free_lane(new_event_begin_minutes, clash) ==
    LET found == free_lane_fold(clash.event_ends, 1, new_event_begin_minutes, <<>>)
    IN  IF found = <<>> THEN <<>> ELSE <<clash.lanes[found[1]]>>

short_event_clash_condition(is_new_day, event_start, clash_end) ==
    event_start < clash_end /\ ~is_new_day

\* a faulty variant: a new day ends the group of long events too
long_event_clash_condition_by_day(is_new_day, event_start, clash_end) ==
    event_start < clash_end /\ ~is_new_day

long_event_clash_condition(is_new_day, event_start, clash_end) ==
    event_start < clash_end

clash_condition(which, is_new_day, event_start, clash_end) ==
    IF which = "short"
    THEN short_event_clash_condition(is_new_day, event_start, clash_end)
    ELSE long_event_clash_condition(is_new_day, event_start, clash_end)

\* event.start_time.total_minutes().add(Minutes(start_day_diff as u16 * MINUTES_PER_DAY))
total_event_start(event, start_date) ==
    (total_minutes(event.start_time)
     + root_subtract(event.start_date, start_date) * MINUTES_PER_DAY) % (U16_MAX + 1)

total_event_end(event, start_date) ==
    (total_minutes(event.end_time)
     + root_subtract(event.end_date, start_date) * MINUTES_PER_DAY) % (U16_MAX + 1)

\* assert!((0..7).contains(&start_day_diff)); assert!((0..7).contains(&end_day_diff))
week_asserts(event, start_date) ==
    /\ root_subtract(event.start_date, start_date) \in 0..6
    /\ root_subtract(event.end_date, start_date) \in 0..6

\* the closure `create` of get_lanes
EventRange(event) ==
    [start_date |-> event.start_date, start_time |-> event.start_time,
     end_date |-> event.end_date, end_time |-> event.end_time,
     calendar_color |-> event.calendar_color]

(***************************************************************************)
(* SpecClash: find_clashes over an input list that is drawn event by event *)
(* as the loop takes it, in nondecreasing order of start, then the         *)
(* EventData of get_lanes.  The week starts at ClashStart (the date of     *)
(* test_short_event_clash); short lists hold one-day events, long lists    *)
(* whole-day and several-day events.                                       *)
(***************************************************************************)
MaxEvents == 5

ClashStart == Date(2025, 11, 3)

ClashDates == {Date(2025, 11, 3), Date(2025, 11, 4)}

\* 10:00, 10:30, 11:00, 11:30, 12:00, 13:00
ClashTimes == {Time(10, 0), Time(10, 30), Time(11, 0), Time(11, 30), Time(12, 0), Time(13, 0)}

NextWeek == Date(2025, 11, 10)

\* the longest one-day event of the short lists, in minutes
MaxMinutes == 90

\* one-day events: every [start, end) over ClashTimes of at most MaxMinutes on
\* the first day, four on the second day, and one of the week after (on which
\* the assertions fail)
ShortShapes ==
    {e \in {Event("", d, st, d, et, "False", BLACK) :
                d \in ClashDates \cup {NextWeek}, st \in ClashTimes, et \in ClashTimes} :
        /\ total_minutes(e.start_time) < total_minutes(e.end_time)
        /\ e.start_date = ClashStart =>
               total_minutes(e.end_time) - total_minutes(e.start_time) <= MaxMinutes
        /\ e.start_date # ClashStart =>
               /\ e.start_time \in {Time(10, 0), Time(10, 30)}
               /\ e.end_time \in {Time(11, 0), Time(13, 0)}
        /\ e.start_date = NextWeek => e.start_time = Time(10, 0) /\ e.end_time = Time(11, 0)}

ShortInputs(title) == {[e EXCEPT !.title = title] : e \in ShortShapes}

\* events determine_event_type calls Long: whole-day events (00:00 to 23:59) of
\* one or two days, and events from one day to the next of 24 hours or more
LongShapes ==
    {e \in {Event("", sd, midnight, ed, last_minute, "True", BLACK) :
                sd \in ClashDates, ed \in ClashDates}
           \cup {Event("", sd, st, ed, et, "False", BLACK) :
                    sd \in ClashDates, ed \in ClashDates,
                    st \in {Time(10, 0), Time(12, 0)}, et \in {Time(10, 0), Time(12, 0)}} :
        determine_event_type(e, e.all_day = "True") = "Long"}

LongInputs(title) == {[e EXCEPT !.title = title] : e \in LongShapes}

ClashInputs(which, title) ==
    IF which = "short" THEN ShortInputs(title) ELSE LongInputs(title)

ClashInit ==
    /\ condition \in {"short", "long"}
    /\ events = <<>>
    /\ last_clash = ClashDefault
    /\ current_date = ClashStart
    /\ lane_count = 0
    /\ ret = <<>>
    /\ assigned = <<>>
    /\ event_data = <<>>
    /\ cpc = "loop"

ClashIdle ==
    /\ condition = "none"
    /\ events = <<>>
    /\ last_clash = ClashDefault
    /\ current_date = NoDate
    /\ lane_count = 0
    /\ ret = <<>>
    /\ assigned = <<>>
    /\ event_data = <<>>
    /\ cpc = "idle"

\* lines 316-351: the body of `for event in events` for one event
find_clashes_body(event) ==
    /\ events' = Append(events, event)
    /\ IF ~week_asserts(event, ClashStart)
       THEN /\ cpc' = "panic"
            /\ UNCHANGED <<last_clash, current_date, lane_count, ret, assigned>>
       ELSE \E start \in {total_event_start(event, ClashStart)},
               is_new_day \in {event.start_date # current_date} :
            \E has_collision \in {clash_condition(condition, is_new_day, start,
                                                  last_clash.end)} :
            \E free_lane \in {find_free_lane(start, last_clash)} :
            \E rect_lane \in {IF has_collision
                              THEN IF free_lane = <<>> THEN lane_count
                                   ELSE free_lane[1]
                              ELSE 0},
               new_lane_count \in {IF has_collision
                                   THEN IF free_lane = <<>>
                                        THEN (lane_count + 1) % (U8_MAX + 1)
                                        ELSE lane_count
                                   ELSE 1} :
                /\ current_date' = IF is_new_day THEN event.start_date
                                   ELSE current_date
                /\ ret' = IF ~has_collision
                          THEN flush(last_clash, ret, lane_count)
                          ELSE ret
                /\ lane_count' = new_lane_count
                /\ last_clash' =
                       clash_push(IF ~has_collision THEN ClashDefault
                                  ELSE last_clash,
                                  total_event_end(event, ClashStart), rect_lane)
                /\ assigned' = Append(assigned, rect_lane)
                /\ cpc' = "loop"
    /\ UNCHANGED <<condition, event_data>>

\* the input list is in nondecreasing order of start
InStartOrder(event) ==
    events # <<>> =>
        total_event_start(events[Len(events)], ClashStart)
            <= total_event_start(event, ClashStart)

\* one iteration of `for event in events`
ClashIteration ==
    /\ cpc = "loop"
    /\ Len(events) < MaxEvents
    /\ \E event \in ClashInputs(condition, ToString(Len(events) + 1)) :
           InStartOrder(event) /\ find_clashes_body(event)
    /\ UNCHANGED beside_clash

\* lines 353-354: the input is exhausted; the last group is flushed
find_clashes_return ==
    /\ ret' = flush(last_clash, ret, lane_count)
    /\ last_clash' = ClashDefault
    /\ cpc' = "returned"
    /\ UNCHANGED <<condition, events, current_date, lane_count, assigned, event_data>>

ClashReturn ==
    /\ cpc = "loop"
    /\ find_clashes_return
    /\ UNCHANGED beside_clash

\* get_lanes, lines 256-294: the EventData of the list
GetLanes ==
    /\ cpc = "returned"
    /\ event_data' = [event_ranges |-> [i \in 1..Len(events) |-> EventRange(events[i])],
                      titles |-> [i \in 1..Len(events) |-> events[i].title],
                      lanes |-> ret]
    /\ cpc' = "done"
    /\ UNCHANGED <<condition, events, last_clash, current_date, lane_count, ret, assigned>>
    /\ UNCHANGED beside_clash

\* Iterator::max over the total_lane_count of lanes[i..]: <<>> is None
RECURSIVE max_total(_, _, _)
max_total(lanes, i, acc) ==
    IF i > Len(lanes) THEN acc
    ELSE max_total(lanes, i + 1,
                   IF acc = <<>> \/ (acc # <<>> /\ acc[1] <= lanes[i][2])
                   THEN <<lanes[i][2]>> ELSE acc)

\* a faulty variant: .next() in the place of .max()
calculate_biggest_clash_first(data) ==
    IF data.lanes = <<>> THEN 0 ELSE data.lanes[1][2]

\* EventData::calculate_biggest_clash, lines 219-227: .max().unwrap_or(0)
calculate_biggest_clash(data) ==
    LET found == max_total(data.lanes, 1, <<>>)
    IN  IF found = <<>> THEN 0 ELSE found[1]

ClashNext == ClashIteration \/ ClashReturn \/ GetLanes

(***************************************************************************)
(* crates/calendar/src/date.rs: the Date methods and DateStream            *)
(***************************************************************************)
I16_MIN == -32768

I16_MAX == 32767

\* `x as u8`
as_u8(x) == x % (U8_MAX + 1)

\* b'-'
DASH == 45

\* a faulty variant: the two digits of the month are swapped
iso_8601_month_swapped(d) ==
    <<as_u8(TruncDiv(d.year, 1000)) + 48,
      as_u8(TruncDiv(TruncRem(d.year, 1000), 100)) + 48,
      as_u8(TruncDiv(TruncRem(d.year, 100), 10)) + 48,
      as_u8(TruncRem(d.year, 10)) + 48,
      DASH,
      TruncRem(d.month, 10) + 48,
      TruncDiv(d.month, 10) + 48,
      DASH,
      TruncDiv(d.day, 10) + 48,
      TruncRem(d.day, 10) + 48>>

\* Date::iso_8601: the ten bytes of the DateString
iso_8601(d) ==
    <<as_u8(TruncDiv(d.year, 1000)) + 48,
      as_u8(TruncDiv(TruncRem(d.year, 1000), 100)) + 48,
      as_u8(TruncDiv(TruncRem(d.year, 100), 10)) + 48,
      as_u8(TruncRem(d.year, 10)) + 48,
      DASH,
      TruncDiv(d.month, 10) + 48,
      TruncRem(d.month, 10) + 48,
      DASH,
      TruncDiv(d.day, 10) + 48,
      TruncRem(d.day, 10) + 48>>

\* DateString::as_str returns: std::str::from_utf8 accepts the bytes.  A byte
\* below 128 is a character of its own; a byte from 128 on is accepted only
\* inside a multi-byte sequence, which begins with a byte from 194 on.
as_str_returns(bytes) ==
    \A i \in 1..Len(bytes) :
        \/ bytes[i] < 128
        \/ /\ bytes[i] < 192
           /\ i > 1 /\ bytes[i - 1] >= 194

\* a faulty variant: days is widened as if it were unsigned (days as u16 as i32)
add_days_total_unsigned(d, days) == calculate_total_days(d) + (days % 65536)

\* Date::add_days: the rata die handed to eafs::calculate_gregorian_date
add_days_total(d, days) == calculate_total_days(d) + days

\* TRUE when add_days returns (no assertion of eafs fails)
add_days_returns(d, days) ==
    rata_die_asserts(d) /\ gregorian_asserts(add_days_total(d, days))

add_days(d, days) == calculate_gregorian_date(add_days_total(d, days))

add_week(d) == add_days(d, 7)

\* a faulty variant: the week is added
subtract_week_forward(d) == add_days(d, 7)

subtract_week(d) == add_days(d, -7)

(***************************************************************************)
(* SpecArith: one call of a Date method on a date of ArithDates, or a      *)
(* DateStream pulled up to MaxPulls times.  After add_days, add_week and   *)
(* subtract_week the result is subtracted from the receiver again.         *)
(***************************************************************************)
\* |days| of the add_days calls that are enumerated in full
MaxDays == 400

ArithDates ==
    {Date(1, 1, 1), Date(1, 3, 1), Date(1, 12, 31),
     Date(1900, 2, 28), Date(1900, 3, 1),
     Date(2000, 1, 1), Date(2000, 2, 28), Date(2000, 2, 29), Date(2000, 3, 1),
     Date(2000, 12, 31), Date(2001, 1, 1), Date(2001, 2, 28), Date(2001, 12, 31),
     Date(2024, 2, 29), Date(2025, 10, 10), Date(2025, 12, 22), Date(2025, 12, 29),
     Date(2025, 12, 30), Date(2026, 1, 4), Date(2028, 12, 29), Date(2029, 1, 4),
     Date(2100, 2, 28), Date(65535, 1, 1), Date(65535, 12, 25), Date(65535, 12, 31)}

ArithDays == (-MaxDays..MaxDays) \cup {I16_MIN, I16_MAX}

\* the (year, month, day) handed to Date::try_new
TryYears == {0, 1, 4, 100, 400, 1900, 2000, 2023, 2024, 2100, U16_MAX}

TryMonths == (0..13) \cup {U8_MAX}

TryDays == (0..32) \cup {U8_MAX}

\* the day counts handed to Date::from_days
FromDaysInputs ==
    {-1, 0, 305, 306}
    \cup {calculate_total_days(d) + k : d \in ArithDates, k \in {-1, 0, 1}}

\* the values pulled from one DateStream
MaxPulls == 8

\* what a call returned: a Date, an i32, Err(InvalidInput), or nothing (the
\* call panicked)
NoRet == [kind |-> "none", date |-> NoDate, int |-> 0, bytes |-> <<>>]

RetErr == [kind |-> "Err", date |-> NoDate, int |-> 0, bytes |-> <<>>]

\* a DateString and whether DateString::as_str returns (from_utf8 accepts it)
RetDateString(b) == [kind |-> "DateString", date |-> NoDate, int |-> 0, bytes |-> b]

\* the dates handed to iso_8601: those of ArithDates and years of one to five
\* digits
IsoDates ==
    ArithDates \cup {Date(9, 9, 9), Date(99, 11, 30), Date(999, 10, 1), Date(9999, 12, 31),
                     Date(10000, 1, 1), Date(12345, 6, 7)}

RetDate(d) == [kind |-> "Date", date |-> d, int |-> 0, bytes |-> <<>>]

RetInt(n) == [kind |-> "i32", date |-> NoDate, int |-> n, bytes |-> <<>>]

ArithInit ==
    /\ a_date = NoDate
    /\ a_days = 0
    /\ a_other = NoDate
    /\ a_ret = NoRet
    /\ a_diff = 0
    /\ s_last = NoDate
    /\ s_pulled = <<>>
    /\ apc = "call"

ArithIdle ==
    /\ a_date = NoDate
    /\ a_days = 0
    /\ a_other = NoDate
    /\ a_ret = NoRet
    /\ a_diff = 0
    /\ s_last = NoDate
    /\ s_pulled = <<>>
    /\ apc = "idle"

\* d.add_days(days)
AddDays ==
    /\ apc = "call"
    /\ \E d \in ArithDates, days \in ArithDays :
           /\ a_date' = d
           /\ a_days' = days
           /\ IF add_days_returns(d, days)
              THEN a_ret' = RetDate(add_days(d, days)) /\ apc' = "add_days"
              ELSE a_ret' = NoRet /\ apc' = "panic"
    /\ UNCHANGED <<a_other, a_diff, s_last, s_pulled>>
    /\ UNCHANGED beside_arith

\* d.add_week()
AddWeek ==
    /\ apc = "call"
    /\ \E d \in ArithDates :
           /\ a_date' = d
           /\ IF add_days_returns(d, 7)
              THEN a_ret' = RetDate(add_week(d)) /\ apc' = "add_week"
              ELSE a_ret' = NoRet /\ apc' = "panic_add_week"
    /\ UNCHANGED <<a_days, a_other, a_diff, s_last, s_pulled>>
    /\ UNCHANGED beside_arith

\* d.subtract_week()
SubtractWeek ==
    /\ apc = "call"
    /\ \E d \in ArithDates :
           /\ a_date' = d
           /\ IF add_days_returns(d, -7)
              THEN a_ret' = RetDate(subtract_week(d)) /\ apc' = "subtract_week"
              ELSE a_ret' = NoRet /\ apc' = "panic_subtract_week"
    /\ UNCHANGED <<a_days, a_other, a_diff, s_last, s_pulled>>
    /\ UNCHANGED beside_arith

\* the returned date .subtract(d)
SubtractBack ==
    /\ apc \in {"add_days", "add_week", "subtract_week"}
    /\ a_diff' = subtract(a_ret.date, a_date)
    /\ apc' = IF apc = "add_days" THEN "add_days_back"
              ELSE IF apc = "add_week" THEN "add_week_back" ELSE "subtract_week_back"
    /\ UNCHANGED <<a_date, a_days, a_other, a_ret, s_last, s_pulled>>
    /\ UNCHANGED beside_arith

\* a.subtract(&b) of date.rs, and of the same pair a.subtract(&b) of lib.rs,
\* kept in a_diff
SubtractDates ==
    /\ apc = "call"
    /\ \E a \in ArithDates, b \in ArithDates :
           /\ a_date' = a
           /\ a_other' = b
           /\ a_diff' = root_subtract(a, b)
           /\ IF rata_die_asserts(a) /\ rata_die_asserts(b)
              THEN a_ret' = RetInt(subtract(a, b)) /\ apc' = "subtract"
              ELSE a_ret' = NoRet /\ apc' = "panic_subtract"
    /\ UNCHANGED <<a_days, s_last, s_pulled>>
    /\ UNCHANGED beside_arith

\* Date::try_new(year, month, day)
TryNew ==
    /\ apc = "call"
    /\ \E year \in TryYears, month \in TryMonths, day \in TryDays :
           /\ a_date' = Date(year, month, day)
           /\ a_ret' = IF try_new(year, month, day)
                       THEN RetDate(Date(year, month, day)) ELSE RetErr
    /\ apc' = "try_new"
    /\ UNCHANGED <<a_days, a_other, a_diff, s_last, s_pulled>>
    /\ UNCHANGED beside_arith

\* Date::from_days(days)
FromDays ==
    /\ apc = "call"
    /\ \E days \in FromDaysInputs :
           /\ a_days' = days
           /\ IF days >= 0 /\ gregorian_asserts(days)
              THEN a_ret' = RetDate(calculate_gregorian_date(days)) /\ apc' = "from_days"
              ELSE a_ret' = NoRet /\ apc' = "panic_from_days"
    /\ UNCHANGED <<a_date, a_other, a_diff, s_last, s_pulled>>
    /\ UNCHANGED beside_arith

\* DateStream::new(date)
StreamNew ==
    /\ apc = "call"
    /\ \E start \in ArithDates :
           /\ a_date' = start
           /\ s_last' = start
    /\ apc' = "stream"
    /\ UNCHANGED <<a_days, a_other, a_ret, a_diff, s_pulled>>
    /\ UNCHANGED beside_arith

\* DateStream::next: the new date is computed first, then the old one returned
StreamNext ==
    /\ apc = "stream"
    /\ Len(s_pulled) < MaxPulls
    /\ \E overflow_checks \in IF increment_date_overflows(s_last)
                               THEN {TRUE, FALSE} ELSE {FALSE} :
           IF overflow_checks
           THEN /\ apc' = "panic_stream"
                /\ UNCHANGED <<s_last, s_pulled>>
           ELSE /\ s_last' = increment_date(s_last)
                /\ s_pulled' = Append(s_pulled, s_last)
                /\ apc' = "stream"
    /\ UNCHANGED <<a_date, a_days, a_other, a_ret, a_diff>>
    /\ UNCHANGED beside_arith

\* d.iso_8601().as_str()
Iso8601 ==
    /\ apc = "call"
    /\ \E d \in IsoDates :
           /\ a_date' = d
           /\ a_ret' = RetDateString(iso_8601(d))
           /\ apc' = IF as_str_returns(iso_8601(d)) THEN "iso_8601" ELSE "panic_as_str"
    /\ UNCHANGED <<a_days, a_other, a_diff, s_last, s_pulled>>
    /\ UNCHANGED beside_arith

ArithNext ==
    \/ AddDays \/ AddWeek \/ SubtractWeek \/ SubtractBack \/ SubtractDates
    \/ TryNew \/ FromDays \/ StreamNew \/ StreamNext \/ Iso8601

(***************************************************************************)
(* crates/application/src/date.rs (get_week_start) and the Calendar state  *)
(* of crates/application/src/main.rs.  SDL is the platform: SDL_Time is a  *)
(* UTC instant, SDL_TimeToDateTime(t, local_time = true) gives the local   *)
(* calendar time of t, that is t plus the UTC offset in force at t, which  *)
(* daylight saving time changes by an hour twice a year.  Instants are     *)
(* counted in hours.                                                       *)
(***************************************************************************)
HOURS_PER_DAY == 24

\* SDL_GetDayOfWeek(year, month, day): 0 = Sunday .. 6 = Saturday, -1 for an
\* invalid date.  0001-01-01 is a Monday; the months before March count with
\* the previous year (Zeller).
SDL_GetDayOfWeek(year, month, day) ==
    IF ~try_new(year, month, day) THEN -1
    ELSE LET a == IF month < 3 THEN 1 ELSE 0
             y == year - a
             m == month + 12 * a
         IN  (day + ((13 * (m + 1)) \div 5) + y + (y \div 4) - (y \div 100)
              + (y \div 400) + 6) % 7

\* match current_weekday { 0 => 7, d @ 1..7 => d, _ => panic!(..) }: 0 stands
\* for the panic
natural_weekday(current_weekday) ==
    IF current_weekday = 0 THEN 7
    ELSE IF current_weekday \in 1..6 THEN current_weekday
         ELSE 0

\* let week_offset_days: i32 = -(natural_weekday - 1)
week_offset_days(weekday) == -(weekday - 1)

\* SDL_TimeToDateTime(now + offset_ns, .., local_time): the local date of the
\* instant `offset` days after the one whose local time is `hour` o'clock on
\* `today`, when the UTC offset there is `shift` hours more than at `now`
local_date_at(today, hour, offset, shift) ==
    LET hours == (calculate_total_days(today) + offset) * HOURS_PER_DAY + hour + shift
    IN  calculate_gregorian_date(hours \div HOURS_PER_DAY)

get_week_start(today, hour, shift) ==
    local_date_at(today, hour,
                  week_offset_days(natural_weekday(
                      SDL_GetDayOfWeek(today.year, today.month, today.day))),
                  shift)

(***************************************************************************)
(* SpecApp: the application starts at some local time of one of AppDays    *)
(* and the user presses PageUp / PageDown up to MaxMoves times.            *)
(***************************************************************************)
MaxMoves == 3

\* the week of the test (2025-10-10 is a Friday), the Sundays on which
\* daylight saving time ends and begins in Europe, and days around a year end
AppDays ==
    {Date(2025, 10, 6), Date(2025, 10, 7), Date(2025, 10, 8), Date(2025, 10, 9),
     Date(2025, 10, 10), Date(2025, 10, 11), Date(2025, 10, 12),
     Date(2025, 10, 26), Date(2025, 3, 30), Date(2025, 12, 31), Date(2026, 1, 1)}

AppHours == {0, 12, 23}

\* the UTC offset at the Monday minus the UTC offset at `now`, in hours
AppShifts == {-1, 0, 1}

AppInit ==
    /\ w_today = NoDate
    /\ w_hour = 0
    /\ w_shift = 0
    /\ week_start = NoDate
    /\ w_moves = 0
    /\ wpc = "start"

AppIdle ==
    /\ w_today = NoDate
    /\ w_hour = 0
    /\ w_shift = 0
    /\ week_start = NoDate
    /\ w_moves = 0
    /\ wpc = "idle"

\* Calendar::new: get_current_week_start()
GetWeekStart ==
    /\ wpc = "start"
    /\ \E today \in AppDays, hour \in AppHours, shift \in AppShifts :
           /\ w_today' = today
           /\ w_hour' = hour
           /\ w_shift' = shift
           /\ week_start' = get_week_start(today, hour, shift)
    /\ wpc' = "running"
    /\ UNCHANGED w_moves
    /\ UNCHANGED beside_app

\* SDL_GetCurrentTime or SDL_TimeToDateTime fails: Calendar::new returns Err
GetWeekStartFails ==
    /\ wpc = "start"
    /\ wpc' = "Err"
    /\ UNCHANGED <<w_today, w_hour, w_shift, week_start, w_moves>>
    /\ UNCHANGED beside_app

\* SDLK_PAGEDOWN: Calendar::add_week
CalendarAddWeek ==
    /\ wpc = "running"
    /\ w_moves < MaxMoves
    /\ w_moves' = w_moves + 1
    /\ IF add_days_returns(week_start, 7)
       THEN week_start' = add_week(week_start) /\ wpc' = "running"
       ELSE wpc' = "panic" /\ UNCHANGED week_start
    /\ UNCHANGED <<w_today, w_hour, w_shift>>
    /\ UNCHANGED beside_app

\* SDLK_PAGEUP: Calendar::subtract_week
CalendarSubtractWeek ==
    /\ wpc = "running"
    /\ w_moves < MaxMoves
    /\ w_moves' = w_moves + 1
    /\ IF add_days_returns(week_start, -7)
       THEN week_start' = subtract_week(week_start) /\ wpc' = "running"
       ELSE wpc' = "panic" /\ UNCHANGED week_start
    /\ UNCHANGED <<w_today, w_hour, w_shift>>
    /\ UNCHANGED beside_app

AppNext == GetWeekStart \/ GetWeekStartFails \/ CalendarAddWeek \/ CalendarSubtractWeek

(***************************************************************************)
(* crates/calendar/src/render.rs: the rectangles of the short events.      *)
(* render.rs imports the Date of lib.rs (use super::Date), so the day      *)
(* offsets are taken with root_subtract.  An f32 is modelled by the        *)
(* rational number it stands for, [n, d] in lowest terms with d > 0; the   *)
(* rounding of the f32 operations is not modelled.                         *)
(***************************************************************************)
RECURSIVE gcd(_, _)
gcd(a, b) == IF b = 0 THEN a ELSE gcd(b, a % b)

f32(n, d) ==
    LET g == gcd(Abs(n), Abs(d))
        sign == IF d < 0 THEN -1 ELSE 1
    IN  [n |-> sign * (n \div g), d |-> sign * (d \div g)]

\* days as f32, lane as f32
as_f32(i) == f32(i, 1)

f32_add(a, b) == f32(a.n * b.d + b.n * a.d, a.d * b.d)

f32_sub(a, b) == f32(a.n * b.d - b.n * a.d, a.d * b.d)

f32_mul(a, b) == f32(a.n * b.n, a.d * b.d)

\* b is not zero
f32_div(a, b) == f32(a.n * b.d, a.d * b.n)

f32_lt(a, b) == a.n * b.d < b.n * a.d

f32_le(a, b) == a.n * b.d <= b.n * a.d

f32_max(a, b) == IF f32_lt(a, b) THEN b ELSE a

\* Time::minutes_from_midnight
minutes_from_midnight(t) == t.hour * MINUTES_PER_HOUR + t.minute

Point(x, y) == [x |-> x, y |-> y]

Rectangle(at, size, text) == [at |-> at, size |-> size, text |-> text]

Arguments(column_width, column_height, offset_x, offset_y) ==
    [column_width |-> column_width, column_height |-> column_height,
     offset_x |-> offset_x, offset_y |-> offset_y]

\* assert!(days >= 0, ...) of calculate_event_point_x
event_point_x_panics(first_date, event_date) ==
    ~(root_subtract(event_date, first_date) >= 0)

\* days as f32 * column_width + offset_x
calculate_event_point_x(first_date, event_date, column_width, offset_x) ==
    f32_add(f32_mul(as_f32(root_subtract(event_date, first_date)), column_width),
            offset_x)

create_point(first_date, start_date, start_time, arguments) ==
    Point(calculate_event_point_x(first_date, start_date, arguments.column_width,
                                  arguments.offset_x),
          f32_add(f32_mul(f32_div(as_f32(minutes_from_midnight(start_time)),
                                  as_f32(MINUTES_PER_DAY)),
                          arguments.column_height),
                  arguments.offset_y))

create_short_event_rectangle(event, first_date, arguments) ==
    LET start_point ==
            create_point(first_date, event.start_date, event.start_time, arguments)
        end_point ==
            create_point(first_date, event.end_date, event.end_time, arguments)
    IN  Rectangle(start_point,
                  Point(arguments.column_width, f32_sub(end_point.y, start_point.y)),
                  event.title)

\* lines 202-206: the closure calc_x
calc_x(d, time, first_date, arguments) ==
    LET days == root_subtract(d, first_date)
        day_tail == as_f32(time.hour * MINUTES_PER_HOUR + time.minute)
    IN  f32_add(f32_mul(f32_add(f32_div(day_tail, as_f32(MINUTES_PER_DAY)), as_f32(days)),
                        arguments.column_width),
                arguments.offset_x)

create_long_event_rectangle(long_event, first_date, arguments) ==
    LET start_x == calc_x(long_event.start_date, long_event.start_time, first_date,
                          arguments)
        end_x == calc_x(long_event.end_date, long_event.end_time, first_date, arguments)
    IN  Rectangle(Point(start_x, arguments.offset_y),
                  Point(f32_sub(end_x, start_x), arguments.column_height),
                  long_event.title)

Atasco(rectangles, lanes, end) == [rectangles |-> rectangles, lanes |-> lanes, end |-> end]

\* Atasco::default()
atasco_default == Atasco(<<>>, <<>>, as_f32(0))

\* Atasco::flush: what it appends to `into`
atasco_flushed(atasco, cell_width, count) ==
    [i \in 1..Len(atasco.rectangles) |->
        LET rect == atasco.rectangles[i]
            lane == atasco.lanes[i]
            lane_width == f32_div(cell_width, as_f32(count))
        IN  Rectangle(Point(f32_add(rect.at.x, f32_mul(lane_width, as_f32(lane))),
                            rect.at.y),
                      Point(lane_width, rect.size.y),
                      rect.text)]

\* Atasco::push
atasco_push(atasco, rect, lane) ==
    Atasco(Append(atasco.rectangles, rect),
           Append(atasco.lanes, lane),
           f32_max(f32_add(rect.at.y, rect.size.y), atasco.end))

rect_end(rect) == f32_add(rect.at.y, rect.size.y)

\* The fold of render.rs's find_free_lane over the first k rectangles: 0 when
\* the accumulator is still (0, NEG_INFINITY), else the (1-based) index kept.
RECURSIVE atasco_free_lane_fold(_, _, _)
atasco_free_lane_fold(new_event_begin, atasco, k) ==
    IF k = 0 THEN 0
    ELSE LET acc == atasco_free_lane_fold(new_event_begin, atasco, k - 1)
             end == rect_end(atasco.rectangles[k])
         IN  IF ~f32_le(end, new_event_begin) THEN acc
             ELSE IF acc = 0 THEN k
             ELSE IF f32_le(f32_sub(new_event_begin, end),
                            f32_sub(new_event_begin, rect_end(atasco.rectangles[acc])))
             THEN k ELSE acc

\* find_free_lane of render.rs: [lane, is_infinite]
atasco_find_free_lane(new_event_begin, atasco) ==
    LET index == atasco_free_lane_fold(new_event_begin, atasco, Len(atasco.rectangles))
    IN  IF index = 0
        THEN [lane |-> 0, is_infinite |-> TRUE]
        ELSE [lane |-> atasco.lanes[index], is_infinite |-> FALSE]

(***************************************************************************)
(* SpecRender: short_event_rectangles over a list of short events that is  *)
(* drawn event by event.  The events are on the day before first_date, on  *)
(* first_date, or up to 5 days after it; every event ends on the day it    *)
(* starts, as the function asserts.                                        *)
(***************************************************************************)
MaxRects == 3

RenderFirstDates ==
    {Date(2025, 9, 29), Date(2025, 1, 27), Date(2025, 12, 29), Date(2025, 11, 3)}

RenderDayOffsets == {-1, 0, 1, 5}

RenderTimes ==
    {<<Time(0, 0), Time(1, 0)>>, <<Time(0, 30), Time(2, 0)>>,
     <<Time(1, 0), Time(1, 45)>>, <<Time(12, 0), Time(18, 0)>>}

RenderArguments ==
    {Arguments(as_f32(125), as_f32(600), as_f32(0), as_f32(0)),
     Arguments(as_f32(100), as_f32(720), as_f32(10), f32(41, 2)),
     Arguments(as_f32(100), as_f32(50), as_f32(125), as_f32(70))}

\* long events: <<start day, start_time, end day, end_time>>, the days counted
\* from first_date
RenderLongShapes ==
    {<<1, Time(0, 0), 3, Time(0, 0)>>, <<0, Time(12, 0), 1, Time(18, 0)>>,
     <<0, Time(0, 0), 0, Time(23, 59)>>, <<2, Time(6, 0), 5, Time(6, 0)>>}

RenderInit ==
    /\ r_first_date \in RenderFirstDates
    /\ r_arguments \in RenderArguments
    /\ r_events = <<>>
    /\ last_atasco = atasco_default
    /\ r_lane_count = 0
    /\ absciss = as_f32(0)
    /\ r_ret = <<>>
    /\ r_lanes = <<>>
    /\ rpc \in {"loop", "long"}

RenderIdle ==
    /\ r_first_date = NoDate
    /\ r_arguments = Arguments(as_f32(0), as_f32(0), as_f32(0), as_f32(0))
    /\ r_events = <<>>
    /\ last_atasco = atasco_default
    /\ r_lane_count = 0
    /\ absciss = as_f32(0)
    /\ r_ret = <<>>
    /\ r_lanes = <<>>
    /\ rpc = "idle"

\* the <<lane, lane_count>> of the rectangles a flush appends
flushed_lanes(atasco, count) ==
    [i \in 1..Len(atasco.rectangles) |-> <<atasco.lanes[i], count>>]

\* lines 352-402: the body of `for event in short_events` for one event
short_event_rectangles_body(event) ==
    /\ r_events' = Append(r_events, event)
    /\ IF event_point_x_panics(r_first_date, event.start_date)
       THEN /\ rpc' = "panic_days"
            /\ UNCHANGED <<last_atasco, r_lane_count, absciss, r_ret, r_lanes>>
       ELSE \E rect \in {create_short_event_rectangle(event, r_first_date,
                                                      r_arguments)} :
              LET atx == rect.at.x
                  aty == rect.at.y
                  is_new_absciss == atx # absciss
                  has_collision == f32_lt(aty, last_atasco.end) /\ ~is_new_absciss
                  free == atasco_find_free_lane(aty, last_atasco)
                  rect_lane == IF has_collision
                               THEN IF free.is_infinite THEN r_lane_count
                                    ELSE free.lane
                               ELSE 0
                  new_lane_count == IF has_collision
                                    THEN IF free.is_infinite THEN r_lane_count + 1
                                         ELSE r_lane_count
                                    ELSE 1
                  does_replace == ~has_collision
                  flushed == IF does_replace THEN atasco_default ELSE last_atasco
              IN  /\ absciss' = IF is_new_absciss THEN atx ELSE absciss
                  /\ r_ret' = IF does_replace
                              THEN r_ret \o atasco_flushed(last_atasco,
                                                           r_arguments.column_width,
                                                           r_lane_count)
                              ELSE r_ret
                  /\ r_lanes' = IF does_replace
                                THEN r_lanes \o flushed_lanes(last_atasco, r_lane_count)
                                ELSE r_lanes
                  /\ r_lane_count' = new_lane_count
                  /\ last_atasco' = atasco_push(flushed, rect, rect_lane)
                  /\ rpc' = "loop"
    /\ UNCHANGED <<r_first_date, r_arguments>>

\* One iteration of `for event in short_events`.  The event's title is its
\* position in the list.
RectangleIteration ==
    /\ rpc = "loop"
    /\ Len(r_events) < MaxRects
    /\ \E k \in RenderDayOffsets, times \in RenderTimes :
          short_event_rectangles_body(
              Event(Len(r_events) + 1, add_days(r_first_date, k), times[1],
                    add_days(r_first_date, k), times[2], "False", BLACK))
    /\ UNCHANGED beside_render

\* the flush after the loop, and Ok(ret)
short_event_rectangles_return ==
    /\ r_ret' = r_ret \o atasco_flushed(last_atasco, r_arguments.column_width,
                                        r_lane_count)
    /\ r_lanes' = r_lanes \o flushed_lanes(last_atasco, r_lane_count)
    /\ last_atasco' = atasco_default
    /\ rpc' = "returned"
    /\ UNCHANGED <<r_first_date, r_arguments, r_events, r_lane_count, absciss>>

RectanglesReturn ==
    /\ rpc = "loop"
    /\ short_event_rectangles_return
    /\ UNCHANGED beside_render

\* long_event_rectangles: one item of long_events.iter().map(...)
LongEventRectangle ==
    /\ rpc = "long"
    /\ Len(r_events) < MaxRects
    /\ \E shape \in RenderLongShapes :
         \E event \in {Event(Len(r_events) + 1, add_days(r_first_date, shape[1]), shape[2],
                             add_days(r_first_date, shape[3]), shape[4], "False", BLACK)} :
           /\ r_events' = Append(r_events, event)
           /\ r_ret' = Append(r_ret, create_long_event_rectangle(event, r_first_date,
                                                                r_arguments))
    /\ UNCHANGED <<r_first_date, r_arguments, last_atasco, r_lane_count, absciss,
                   r_lanes, rpc>>
    /\ UNCHANGED beside_render

RenderNext == RectangleIteration \/ RectanglesReturn \/ LongEventRectangle

(***************************************************************************)
(* One list of events laid out twice: by find_clashes (obtain.rs), from    *)
(* the times, and by short_event_rectangles (render.rs), from the          *)
(* rectangles, as the test test_collision of render.rs compares them.  A   *)
(* list of long events goes through find_clashes alone.                    *)
(***************************************************************************)
LayoutArguments ==
    {Arguments(as_f32(125), as_f32(600), as_f32(0), as_f32(0)),
     Arguments(as_f32(100), as_f32(720), as_f32(10), f32(41, 2))}

beside_layout == <<date_vars, filter_vars, obtain_vars, arith_vars, app_vars,
                   main_vars>>

LayoutInit ==
    /\ ClashInit
    /\ IF condition = "short"
       THEN /\ r_first_date = ClashStart
            /\ r_arguments \in LayoutArguments
            /\ r_events = <<>>
            /\ last_atasco = atasco_default
            /\ r_lane_count = 0
            /\ absciss = as_f32(0)
            /\ r_ret = <<>>
            /\ r_lanes = <<>>
            /\ rpc = "loop"
       ELSE RenderIdle

\* the next event of the list, given to both loops
LayoutIteration ==
    /\ cpc = "loop"
    /\ condition = "short" => rpc = "loop"
    /\ Len(events) < MaxEvents
    /\ \E event \in ClashInputs(condition, ToString(Len(events) + 1)) :
          /\ InStartOrder(event)
          /\ find_clashes_body(event)
          /\ IF condition = "short" THEN short_event_rectangles_body(event)
             ELSE UNCHANGED render_vars
    /\ UNCHANGED beside_layout

\* the end of the list: both functions flush and return
LayoutReturn ==
    /\ cpc = "loop"
    /\ condition = "short" => rpc = "loop"
    /\ find_clashes_return
    /\ IF condition = "short" THEN short_event_rectangles_return
       ELSE UNCHANGED render_vars
    /\ UNCHANGED beside_layout

LayoutNext == LayoutIteration \/ LayoutReturn

(***************************************************************************)
(* crates/application/src/main.rs, unsafe_main, with the Calendar and      *)
(* UserInterface of state.rs: the main loop.  Each turn polls the SDL      *)
(* events until there is none, refetches the agenda if the week was        *)
(* switched, builds the View, computes the rectangles that are missing,    *)
(* and renders.  A cache that is Some holds, as history, the week, the     *)
(* agenda and the view it was computed from.  f32 values are multiples of  *)
(* the steps and are kept as integers.                                     *)
(***************************************************************************)
GRID_SCALE_STEP == 50

GRID_OFFSET_STEP == 50

\* the week the application starts in
MainStart == Date(2025, 11, 3)

\* weeks that PageUp and PageDown go away from MainStart
MaxWeeks == 2

\* presses of Equals above the initial scale
MaxZoom == 2

\* what SDL_GetWindowSize returns
WindowSizes == {<<800, 600>>, <<1024, 768>>}

SurfaceAdjustment(vertical_scale, vertical_offset) ==
    [vertical_scale |-> vertical_scale, vertical_offset |-> vertical_offset]

clamp(x, lo, hi) == IF x < lo THEN lo ELSE IF x > hi THEN hi ELSE x

\* UserInterface::add_adjustment
add_adjustment(adj, value) ==
    [adj EXCEPT !.vertical_offset =
        clamp(adj.vertical_offset - value, -adj.vertical_scale, 0)]

\* View::new, ui.rs 147-189: the adjustment it leaves (the gap under the grid
\* is closed)
view_adjustment(adj, size) ==
    LET bottom == adj.vertical_offset + size[2] + adj.vertical_scale
        bottom_gap == size[2] - bottom
    IN  IF bottom_gap >= 0
        THEN [adj EXCEPT !.vertical_offset = adj.vertical_offset + bottom_gap]
        ELSE adj

\* what a View and the rectangles made with it are computed from
ViewOf(adj, size) == [window_size |-> size, adjustment |-> view_adjustment(adj, size)]

RectanglesOf(adj, size) ==
    [week_start |-> m_week_start, agenda |-> week_data, view |-> ViewOf(adj, size)]

\* a faulty variant: the short rectangles are kept
drop_events_keeps_short(short_opt, long_opt) == <<short_opt, <<>>>>

\* Calendar::drop_events: <<short_event_rectangles_opt, long_event_rectangles_opt>>
drop_events(short_opt, long_opt) == <<<<>>, <<>>>>

MainInit ==
    /\ m_week_start = MainStart
    /\ is_week_switched = FALSE
    /\ week_data = MainStart
    /\ window_size \in WindowSizes
    /\ adjustment = SurfaceAdjustment(0, 0)
    /\ short_event_rectangles_opt = <<>>
    /\ long_event_rectangles_opt = <<>>
    /\ short_stale = FALSE
    /\ long_stale = FALSE
    /\ m_event = "none"
    /\ mpc = "poll"

MainIdle ==
    /\ m_week_start = NoDate
    /\ is_week_switched = FALSE
    /\ week_data = NoDate
    /\ window_size = <<0, 0>>
    /\ adjustment = SurfaceAdjustment(0, 0)
    /\ short_event_rectangles_opt = <<>>
    /\ long_event_rectangles_opt = <<>>
    /\ short_stale = FALSE
    /\ long_stale = FALSE
    /\ m_event = "none"
    /\ mpc = "idle"

\* the two .take() of an event handler
TakeBoth ==
    /\ short_event_rectangles_opt' = <<>>
    /\ long_event_rectangles_opt' = <<>>
    /\ short_stale' = TRUE
    /\ long_stale' = TRUE

\* SDL_EVENT_QUIT
HandleQuit ==
    /\ mpc = "poll"
    /\ m_event' = "Quit"
    /\ mpc' = "quit"
    /\ UNCHANGED <<m_week_start, is_week_switched, week_data, window_size, adjustment,
                   short_event_rectangles_opt, long_event_rectangles_opt, short_stale,
                   long_stale>>
    /\ UNCHANGED beside_main

\* SDL_EVENT_WINDOW_RESIZED
HandleWindowResized ==
    /\ mpc = "poll"
    /\ m_event' = "WindowResized"
    /\ TakeBoth
    /\ window_size' \in WindowSizes
    /\ UNCHANGED <<m_week_start, is_week_switched, week_data, adjustment, mpc>>
    /\ UNCHANGED beside_main

\* SDL_EVENT_KEY_DOWN, SDLK_UP
HandleUp ==
    /\ mpc = "poll"
    /\ m_event' = "Up"
    /\ adjustment' = add_adjustment(adjustment, -GRID_OFFSET_STEP)
    /\ TakeBoth
    /\ UNCHANGED <<m_week_start, is_week_switched, week_data, window_size, mpc>>
    /\ UNCHANGED beside_main

\* SDL_EVENT_KEY_DOWN, SDLK_DOWN
HandleDown ==
    /\ mpc = "poll"
    /\ m_event' = "Down"
    /\ adjustment' = add_adjustment(adjustment, GRID_OFFSET_STEP)
    /\ TakeBoth
    /\ UNCHANGED <<m_week_start, is_week_switched, week_data, window_size, mpc>>
    /\ UNCHANGED beside_main

\* SDL_EVENT_KEY_DOWN, SDLK_MINUS
HandleMinus ==
    /\ mpc = "poll"
    /\ m_event' = "Minus"
    /\ adjustment' =
           [adjustment EXCEPT !.vertical_scale =
               IF 0 >= adjustment.vertical_scale - GRID_SCALE_STEP THEN 0
               ELSE adjustment.vertical_scale - GRID_SCALE_STEP]
    /\ TakeBoth
    /\ UNCHANGED <<m_week_start, is_week_switched, week_data, window_size, mpc>>
    /\ UNCHANGED beside_main

\* SDL_EVENT_KEY_DOWN, SDLK_EQUALS
HandleEquals ==
    /\ mpc = "poll"
    /\ adjustment.vertical_scale < MaxZoom * GRID_SCALE_STEP
    /\ m_event' = "Equals"
    /\ adjustment' =
           [adjustment EXCEPT !.vertical_scale = adjustment.vertical_scale + GRID_SCALE_STEP]
    /\ TakeBoth
    /\ UNCHANGED <<m_week_start, is_week_switched, week_data, window_size, mpc>>
    /\ UNCHANGED beside_main

\* SDL_EVENT_KEY_UP, SDLK_PAGEUP: Calendar::subtract_week
HandlePageUp ==
    /\ mpc = "poll"
    /\ subtract(MainStart, m_week_start) < 7 * MaxWeeks
    /\ m_event' = "PageUp"
    /\ m_week_start' = subtract_week(m_week_start)
    /\ is_week_switched' = TRUE
    /\ short_stale' = TRUE
    /\ long_stale' = TRUE
    /\ UNCHANGED <<week_data, window_size, adjustment, short_event_rectangles_opt,
                   long_event_rectangles_opt, mpc>>
    /\ UNCHANGED beside_main

\* SDL_EVENT_KEY_UP, SDLK_PAGEDOWN: Calendar::add_week
HandlePageDown ==
    /\ mpc = "poll"
    /\ subtract(m_week_start, MainStart) < 7 * MaxWeeks
    /\ m_event' = "PageDown"
    /\ m_week_start' = add_week(m_week_start)
    /\ is_week_switched' = TRUE
    /\ short_stale' = TRUE
    /\ long_stale' = TRUE
    /\ UNCHANGED <<week_data, window_size, adjustment, short_event_rectangles_opt,
                   long_event_rectangles_opt, mpc>>
    /\ UNCHANGED beside_main

\* SDL_PollEvent returns false
PollEmpty ==
    /\ mpc = "poll"
    /\ mpc' = "update"
    /\ UNCHANGED <<m_week_start, is_week_switched, week_data, window_size, adjustment,
                   short_event_rectangles_opt, long_event_rectangles_opt, short_stale,
                   long_stale, m_event>>
    /\ UNCHANGED beside_main

\* if is_week_switched { update_week_data()? }: the agenda is fetched
UpdateWeekData ==
    /\ mpc = "update"
    /\ is_week_switched
    /\ week_data' = m_week_start
    /\ is_week_switched' = FALSE
    /\ short_event_rectangles_opt' =
           drop_events(short_event_rectangles_opt, long_event_rectangles_opt)[1]
    /\ long_event_rectangles_opt' =
           drop_events(short_event_rectangles_opt, long_event_rectangles_opt)[2]
    /\ mpc' = "view"
    /\ UNCHANGED <<m_week_start, window_size, adjustment, short_stale, long_stale,
                   m_event>>
    /\ UNCHANGED beside_main

\* WeekData::try_new returns an error: `?` leaves the closure
UpdateWeekDataFails ==
    /\ mpc = "update"
    /\ is_week_switched
    /\ mpc' = "failed"
    /\ UNCHANGED <<m_week_start, is_week_switched, week_data, window_size, adjustment,
                   short_event_rectangles_opt, long_event_rectangles_opt, short_stale,
                   long_stale, m_event>>
    /\ UNCHANGED beside_main

\* the week was not switched
KeepWeekData ==
    /\ mpc = "update"
    /\ ~is_week_switched
    /\ mpc' = "view"
    /\ UNCHANGED <<m_week_start, is_week_switched, week_data, window_size, adjustment,
                   short_event_rectangles_opt, long_event_rectangles_opt, short_stale,
                   long_stale, m_event>>
    /\ UNCHANGED beside_main

\* View::new and the rectangles that are None computed from it
CreateRenderData ==
    /\ mpc = "view"
    /\ adjustment' = view_adjustment(adjustment, window_size)
    /\ IF long_event_rectangles_opt = <<>>
       THEN /\ long_event_rectangles_opt' = <<RectanglesOf(adjustment, window_size)>>
            /\ long_stale' = FALSE
       ELSE UNCHANGED <<long_event_rectangles_opt, long_stale>>
    /\ IF short_event_rectangles_opt = <<>>
       THEN /\ short_event_rectangles_opt' = <<RectanglesOf(adjustment, window_size)>>
            /\ short_stale' = FALSE
       ELSE UNCHANGED <<short_event_rectangles_opt, short_stale>>
    /\ mpc' = "render"
    /\ UNCHANGED <<m_week_start, is_week_switched, week_data, window_size, m_event>>
    /\ UNCHANGED beside_main

\* register_event_titles returns an error while rectangles are computed
RegisterEventTitlesFails ==
    /\ mpc = "view"
    /\ long_event_rectangles_opt = <<>> \/ short_event_rectangles_opt = <<>>
    /\ adjustment' = view_adjustment(adjustment, window_size)
    /\ mpc' = "failed"
    /\ UNCHANGED <<m_week_start, is_week_switched, week_data, window_size,
                   short_event_rectangles_opt, long_event_rectangles_opt, short_stale,
                   long_stale, m_event>>
    /\ UNCHANGED beside_main

\* render::render(renderer, data)?
Render ==
    /\ mpc = "render"
    /\ m_event' = "none"
    /\ mpc' \in {"poll", "failed"}
    /\ UNCHANGED <<m_week_start, is_week_switched, week_data, window_size, adjustment,
                   short_event_rectangles_opt, long_event_rectangles_opt, short_stale,
                   long_stale>>
    /\ UNCHANGED beside_main

MainNext ==
    \/ HandleQuit \/ HandleWindowResized \/ HandleUp \/ HandleDown \/ HandleMinus
    \/ HandleEquals \/ HandlePageUp \/ HandlePageDown \/ PollEmpty
    \/ UpdateWeekData \/ UpdateWeekDataFails \/ KeepWeekData
    \/ CreateRenderData \/ RegisterEventTitlesFails \/ Render

(***************************************************************************)
(* The specifications                                                      *)
(***************************************************************************)
InitDate == DateInit /\ FilterIdle /\ ObtainIdle /\ ClashIdle /\ ArithIdle /\
    AppIdle /\ RenderIdle /\ MainIdle

InitFilter == FilterInit /\ DateIdle /\ ObtainIdle /\ ClashIdle /\ ArithIdle /\
    AppIdle /\ RenderIdle /\ MainIdle

InitObtain == ObtainInit /\ DateIdle /\ FilterIdle /\ ClashIdle /\ ArithIdle /\
    AppIdle /\ RenderIdle /\ MainIdle

InitClash == ClashInit /\ DateIdle /\ FilterIdle /\ ObtainIdle /\ ArithIdle /\
    AppIdle /\ RenderIdle /\ MainIdle

InitApp ==
    AppInit /\ DateIdle /\ FilterIdle /\ ObtainIdle /\ ClashIdle /\ ArithIdle /\
    RenderIdle /\ MainIdle

InitArith == ArithInit /\ DateIdle /\ FilterIdle /\ ObtainIdle /\ ClashIdle /\
    AppIdle /\ RenderIdle /\ MainIdle

InitRender ==
    RenderInit /\ DateIdle /\ FilterIdle /\ ObtainIdle /\ ClashIdle /\ ArithIdle /\
    AppIdle /\
    MainIdle

InitLayout ==
    LayoutInit /\ DateIdle /\ FilterIdle /\ ObtainIdle /\ ArithIdle /\ AppIdle /\
    MainIdle

InitMain ==
    MainInit /\ DateIdle /\ FilterIdle /\ ObtainIdle /\ ClashIdle /\ ArithIdle /\
    AppIdle /\ RenderIdle

SpecDate == InitDate /\ [][DateNext]_vars

SpecFilter == InitFilter /\ [][FilterNext]_vars

SpecObtain == InitObtain /\ [][ObtainNext]_vars

SpecClash == InitClash /\ [][ClashNext]_vars

SpecArith == InitArith /\ [][ArithNext]_vars

SpecApp == InitApp /\ [][AppNext]_vars

SpecRender == InitRender /\ [][RenderNext]_vars

SpecLayout == InitLayout /\ [][LayoutNext]_vars

SpecMain == InitMain /\ [][MainNext]_vars

(***************************************************************************)
(* Lanes (SpecClash)                                                       *)
(***************************************************************************)
\* the [start, end) minute intervals of two events of one day overlap
Overlap(a, b) ==
    /\ total_minutes(a.start_time) < total_minutes(b.end_time)
    /\ total_minutes(b.start_time) < total_minutes(a.end_time)

OneDayList ==
    \A i \in 1..Len(events) :
        /\ events[i].start_date = events[i].end_date
        /\ events[i].start_date = events[1].start_date

\* C1: for a list of short events of one day in nondecreasing start order, the
\* pairs find_clashes returns with short_event_clash_condition never give the
\* same lane to two events whose [start, end) intervals overlap.
C1_NoOverlapInLane ==
    (cpc \in {"returned", "done"} /\ condition = "short" /\ OneDayList) =>
        \A i, j \in 1..Len(events) :
            (i < j /\ ret[i][1] = ret[j][1]) => ~Overlap(events[i], events[j])

\* the list on which two overlapping events share lane 0:
\* 10:00-11:00, 10:30-12:00, 11:00-12:00, 11:30-13:00
C1_SharedLane ==
    /\ cpc = "returned" /\ condition = "short"
    /\ Len(events) = 4 /\ OneDayList
    /\ [i \in 1..4 |-> <<events[i].start_time, events[i].end_time>>] =
           << <<Time(10, 0), Time(11, 0)>>, <<Time(10, 30), Time(12, 0)>>,
              <<Time(11, 0), Time(12, 0)>>, <<Time(11, 30), Time(13, 0)>> >>
    /\ ret = << <<0, 2>>, <<1, 2>>, <<0, 2>>, <<0, 2>> >>

SeqMax(q) == CHOOSE x \in {q[i] : i \in 1..Len(q)} : \A i \in 1..Len(q) : q[i] <= x

\* C2: the events flushed as one clash group all carry the same total_lanes,
\* which is 1 + the largest lane index assigned in the group, so every lane
\* index is smaller than its total_lanes.  (Each step that adds to ret adds
\* exactly one flushed group.)
C2_GroupTotals ==
    [][LET flushed == SubSeq(ret', Len(ret) + 1, Len(ret'))
       IN  /\ Len(ret') >= Len(ret)
           /\ SubSeq(ret', 1, Len(ret)) = ret
           /\ flushed # <<>> =>
                  /\ flushed = [i \in 1..Len(flushed) |->
                                   <<last_clash.lanes[i], flushed[1][2]>>]
                  /\ flushed[1][2] = 1 + SeqMax(last_clash.lanes)
                  /\ \A i \in 1..Len(flushed) : flushed[i][1] < flushed[i][2]]_vars

C2_ThreeLanes ==
    /\ cpc = "returned"
    /\ \E i, j \in 1..Len(ret) : ret[i] = <<2, 3>> /\ ret[j] = <<0, 1>>

\* C3: find_clashes returns one pair per input event, the i-th pair carrying
\* the lane the i-th event was given (while the loop runs, ret and the open
\* group together hold one lane per event taken), and the event_ranges, titles
\* and lanes of the EventData have equal length and correspond index by index.
C3_ParallelSequences ==
    /\ cpc = "loop" =>
           /\ Len(ret) + Len(last_clash.lanes) = Len(events)
           /\ \A i \in 1..Len(ret) : ret[i][1] = assigned[i]
           /\ \A i \in 1..Len(last_clash.lanes) :
                  last_clash.lanes[i] = assigned[Len(ret) + i]
    /\ cpc \in {"returned", "done"} =>
           /\ Len(ret) = Len(events)
           /\ \A i \in 1..Len(ret) : ret[i][1] = assigned[i]
    /\ cpc = "done" =>
           /\ Len(event_data.event_ranges) = Len(events)
           /\ Len(event_data.titles) = Len(events)
           /\ Len(event_data.lanes) = Len(events)
           /\ \A i \in 1..Len(events) :
                  /\ event_data.event_ranges[i] = EventRange(events[i])
                  /\ event_data.titles[i] = events[i].title
                  /\ event_data.lanes[i][1] = assigned[i]

C3_TwoGroupsBuilt ==
    /\ cpc = "done"
    /\ Len(events) = 4
    /\ event_data.lanes = << <<0, 2>>, <<1, 2>>, <<0, 1>>, <<0, 1>> >>

TestEvents ==
    << <<Time(10, 0), Time(11, 0)>>, <<Time(10, 30), Time(11, 30)>>,
       <<Time(11, 0), Time(12, 0)>>, <<Time(12, 0), Time(13, 0)>> >>

\* the members of the open group that end exactly at `start`
EndingAt(clash, start) ==
    {k \in 1..Len(clash.event_ends) : clash.event_ends[k] = start}

\* C4: intervals are half-open.  In a step of the loop, an event that collides
\* with the open group and starts exactly when a member of the group ends gets
\* the lane of such a member and no lane is opened; an event that starts
\* exactly at the group's latest end starts a new group in lane 0 with count 1;
\* and first(10:00-11:00), second(10:30-11:30), third(11:00-12:00),
\* separated(12:00-13:00) get (0,2), (1,2), (0,2), (0,1).
C4_HalfOpen ==
    [][/\ (cpc = "loop" /\ cpc' = "loop" /\ Len(events') = Len(events) + 1) =>
              LET event == events'[Len(events')]
                  start == total_event_start(event, ClashStart)
                  collides == clash_condition(condition, event.start_date # current_date,
                                              start, last_clash.end)
              IN  /\ (collides /\ EndingAt(last_clash, start) # {}) =>
                         /\ assigned'[Len(assigned')] \in
                                {last_clash.lanes[k] : k \in EndingAt(last_clash, start)}
                         /\ lane_count' = lane_count
                  /\ (events # <<>> /\ start = last_clash.end) =>
                         /\ assigned'[Len(assigned')] = 0
                         /\ lane_count' = 1
                         /\ last_clash'.lanes = <<0>>
                         /\ ret' = flush(last_clash, ret, lane_count)
       /\ (cpc' = "returned" /\ condition = "short" /\ Len(events) = 4 /\ OneDayList
           /\ [i \in 1..4 |-> <<events[i].start_time, events[i].end_time>>] = TestEvents) =>
              ret' = << <<0, 2>>, <<1, 2>>, <<0, 2>>, <<0, 1>> >>]_vars

\* What does hold of every step: the event that starts when a member ends gets
\* the lane of SOME member that has ended by then (not always one that ends
\* exactly then), and the rest of C4.
HalfOpenLanes ==
    [][/\ (cpc = "loop" /\ cpc' = "loop" /\ Len(events') = Len(events) + 1) =>
              LET event == events'[Len(events')]
                  start == total_event_start(event, ClashStart)
                  collides == clash_condition(condition, event.start_date # current_date,
                                              start, last_clash.end)
              IN  /\ (collides /\ EndingAt(last_clash, start) # {}) =>
                         /\ assigned'[Len(assigned')] \in
                                {last_clash.lanes[k] :
                                    k \in {n \in 1..Len(last_clash.event_ends) :
                                              last_clash.event_ends[n] <= start}}
                         /\ lane_count' = lane_count
                  /\ (events # <<>> /\ start = last_clash.end) =>
                         /\ assigned'[Len(assigned')] = 0
                         /\ lane_count' = 1
                         /\ last_clash'.lanes = <<0>>
                         /\ ret' = flush(last_clash, ret, lane_count)
       /\ (cpc' = "returned" /\ condition = "short" /\ Len(events) = 4 /\ OneDayList
           /\ [i \in 1..4 |-> <<events[i].start_time, events[i].end_time>>] = TestEvents) =>
              ret' = << <<0, 2>>, <<1, 2>>, <<0, 2>>, <<0, 1>> >>]_vars

\* the list of test_short_event_clash and its lanes
C4_TestLanes ==
    /\ cpc = "returned" /\ condition = "short" /\ Len(events) = 4 /\ OneDayList
    /\ [i \in 1..4 |-> <<events[i].start_time, events[i].end_time>>] = TestEvents
    /\ ret = << <<0, 2>>, <<1, 2>>, <<0, 2>>, <<0, 1>> >>

(***************************************************************************)
(* Classification and cropping (SpecFilter)                                *)
(***************************************************************************)
\* The class the classification table gives for a day difference, a start and
\* an end minute and the all-day flag.
table_class(days, start_minutes, end_minutes, is_all_day) ==
    CASE days = 0 /\ is_all_day -> "Long"
      [] days = 0 /\ ~is_all_day -> "Short"
      [] days = 1 -> IF (1440 - start_minutes) + end_minutes >= 1440
                     THEN "Long" ELSE "CrossNight"
      [] OTHER -> "Long"

filtered_start_minutes ==
    IF f_event.all_day = "True" THEN 0 ELSE total_minutes(f_event.start_time)

filtered_end_minutes ==
    IF f_event.all_day = "True" THEN 23 * 60 + 59 ELSE total_minutes(f_event.end_time)

\* C5: an all-day event first gets 00:00 and 23:59; then, with duration_days the
\* number of calendar days from start_date to end_date, every event with
\* duration_days >= 0 gets exactly the class of the table: 0 and all-day Long,
\* 0 and not all-day Short, 1 Long when (1440 - start) + end >= 1440 and
\* CrossNight otherwise, 2 or more Long.
C5_ClassByCalendarDays ==
    (fpc # "call" /\ f_event.all_day \in {"True", "False"}) =>
        LET calendar_days == subtract(f_event.end_date, f_event.start_date)
        IN  calendar_days >= 0 =>
                f_type = table_class(calendar_days, filtered_start_minutes,
                                     filtered_end_minutes, f_event.all_day = "True")

\* What the code does follow: the same table for the value its own
\* Date::subtract (lib.rs, days_from_epoch) returns, which is not the number of
\* calendar days when the two dates lie in different months or years.
ClassByComputedDays ==
    (fpc # "call" /\ f_event.all_day \in {"True", "False"}) =>
        LET event_duration_days == root_subtract(f_event.end_date, f_event.start_date)
        IN  /\ event_duration_days >= 0 =>
                f_type = table_class(event_duration_days, filtered_start_minutes,
                                     filtered_end_minutes, f_event.all_day = "True")
            /\ event_duration_days < 0 => fpc = "panic"
            /\ (f_event.all_day = "True" /\ f_result.kind = "Some") =>
                   /\ f_result.event.start_time = Time(0, 0)
                   /\ f_result.event.end_time = Time(23, 59)

\* a New Year's Eve event of two hours is classified Long
C5_NewYearsEve ==
    /\ fpc = "returned"
    /\ f_event.start_date = Date(2025, 12, 31) /\ f_event.start_time = Time(23, 0)
    /\ f_event.end_date = Date(2026, 1, 1) /\ f_event.end_time = Time(1, 0)
    /\ f_event.all_day = "False"
    /\ f_type = "Long"

CropExample(title) ==
    Event(title, Date(2025, 10, 27), Time(23, 0), Date(2025, 10, 28), Time(1, 0),
          "False", BLACK)

\* C6: a CrossNight event processed for day d is cropped: for d = start_date to
\* (start_date, start_time) .. (start_date, 23:59), for d = end_date to
\* (end_date, 00:00) .. (end_date, end_time), title, all-day flag and color
\* unchanged, and returned as a short event; for any other d the call panics.
\* 2025-10-27 23:00 to 2025-10-28 01:00 gives 23:00..23:59 on 2025-10-27 and
\* 00:00..01:00 on 2025-10-28.
C6_CrossNightCropped ==
    /\ (fpc # "call" /\ f_type = "CrossNight") =>
           /\ f_date = f_event.start_date =>
                  f_result = Some(TRUE,
                      Event(f_event.title, f_event.start_date, f_event.start_time,
                            f_event.start_date, Time(23, 59),
                            f_event.all_day, f_event.calendar_color))
           /\ (f_date = f_event.end_date /\ f_date # f_event.start_date) =>
                  f_result = Some(TRUE,
                      Event(f_event.title, f_event.end_date, Time(0, 0),
                            f_event.end_date, f_event.end_time,
                            f_event.all_day, f_event.calendar_color))
           /\ f_date \notin {f_event.start_date, f_event.end_date} =>
                  f_result = Panic /\ fpc = "panic"
    /\ (fpc # "call" /\ f_event = CropExample(f_event.title)) =>
           /\ f_type = "CrossNight"
           /\ f_date = Date(2025, 10, 27) =>
                  f_result = Some(TRUE,
                      Event(f_event.title, Date(2025, 10, 27), Time(23, 0),
                            Date(2025, 10, 27), Time(23, 59), "False", BLACK))
           /\ f_date = Date(2025, 10, 28) =>
                  f_result = Some(TRUE,
                      Event(f_event.title, Date(2025, 10, 28), Time(0, 0),
                            Date(2025, 10, 28), Time(1, 0), "False", BLACK))

C6_SecondHalfCropped ==
    /\ fpc = "returned"
    /\ f_event = CropExample("trip")
    /\ f_date = Date(2025, 10, 28)
    /\ f_result.kind = "Some"
    /\ f_result.event.start_time = Time(0, 0)

(***************************************************************************)
(* The agenda loop (SpecObtain)                                            *)
(***************************************************************************)
\* the date DateStream pairs with the n-th agenda line (n from 1)
RECURSIVE line_date(_)
line_date(n) == IF n <= 1 THEN WeekFrom ELSE increment_date(line_date(n - 1))

SeqElems(q) == {q[i] : i \in 1..Len(q)}

\* <<line, index>> pairs in processing order
Before(a, b) == a[1] < b[1] \/ (a[1] = b[1] /\ a[2] < b[2])

\* C7: a Long-classified event is in the long output only from the agenda line
\* whose day equals its start_date, and from that line it is; its occurrences
\* on other lines are dropped, so no long event is in the long output twice.
C7_LongOnlyOnStartDay ==
    /\ Len(long_src) = Len(long)
    /\ \A i \in 1..Len(long) :
           /\ filter_event_type(long[i]) = "Long"
           /\ long[i].start_date = line_date(long_src[i][1])
    /\ \A i, j \in 1..Len(long) : i # j => long[i] # long[j]
    /\ (opc = "loop" /\ o_line >= 1) =>
           \A p \in 1..Len(agenda) :
               filter_event_type(agenda[p]) = "Long" =>
                   /\ <<o_line, p>> \notin SeqElems(short_src)
                   /\ <<o_line, p>> \in SeqElems(long_src)
                          <=> agenda[p].start_date = line_date(o_line)

C7_LaterOccurrenceDropped ==
    /\ opc = "returned" /\ o_result = "Ok" /\ o_line = 2
    /\ \E p \in 1..Len(agenda) : agenda[p].title = "trip"
    /\ Cardinality({i \in 1..Len(long) : long[i].title = "trip"}) = 1

\* C8: short and long are built by appending in processing order (agenda lines
\* in day order, events of a line in source order): the elements of each list
\* come from strictly later places of the backend output, and each element of
\* the line just processed is what short_event_filter returned for its event.
C8_SourceOrderKept ==
    /\ Len(short_src) = Len(short) /\ Len(long_src) = Len(long)
    /\ \A i, j \in 1..Len(short) : i < j => Before(short_src[i], short_src[j])
    /\ \A i, j \in 1..Len(long) : i < j => Before(long_src[i], long_src[j])
    /\ (opc = "loop" /\ o_line >= 1) =>
           /\ \A i \in 1..Len(short) :
                  short_src[i][1] = o_line =>
                      short[i] = short_event_filter(agenda[short_src[i][2]],
                                                    line_date(o_line)).event
           /\ \A i \in 1..Len(long) :
                  long_src[i][1] = o_line =>
                      long[i] = short_event_filter(agenda[long_src[i][2]],
                                                   line_date(o_line)).event

C8_TwoInEachList ==
    /\ opc = "returned" /\ o_result = "Ok"
    /\ Len(short) = 2 /\ Len(long) = 2
    /\ short_src[1][1] = 1 /\ short_src[2][1] = 2

(***************************************************************************)
(* The day count (SpecDate)                                                *)
(***************************************************************************)
\* C9: for every valid Date d with year in 1..=2100,
\* calculate_gregorian_date(calculate_rata_die_from_gregorian_calendar(d)) = d,
\* and no assertion of the two functions fails.
C9_RoundTrip ==
    /\ dpc # "panic"
    /\ dpc = "loop" => date = input_date

C9_LeapDayReturned ==
    /\ dpc = "loop"
    /\ input_date = Date(4, 2, 29)
    /\ date = input_date

\* C10: for consecutive valid dates d1, d2 with years in 1..=2100 the day count
\* of d2 is the day count of d1 plus one.
C10_GapFree ==
    (dpc = "loop" /\ last_rata_die # <<>>) => rata_die = last_rata_die[1] + 1

C10_LeapDayCrossed ==
    /\ dpc = "loop"
    /\ input_date = Date(4, 3, 1)
    /\ last_rata_die = <<rata_die - 1>>

(***************************************************************************)
(* Date arithmetic (SpecArith)                                             *)
(***************************************************************************)
FirstDate == Date(1, 1, 1)

LastDate == Date(U16_MAX, 12, 31)

\* the day count a_date + a_days is that of a date of the years 1..=65535
InYearRange ==
    /\ calculate_total_days(FirstDate) <= calculate_total_days(a_date) + a_days
    /\ calculate_total_days(a_date) + a_days <= calculate_total_days(LastDate)

\* C11: for every valid Date d and every i16 n for which d + n days stays in
\* the years 1..=65535, d.add_days(n) returns and d.add_days(n).subtract(d) = n;
\* add_days panics only when d + n days is outside these years.
C11_AddDaysInverse ==
    /\ apc = "add_days_back" => a_diff = a_days
    /\ apc \in {"add_days", "add_days_back"} => InYearRange
    /\ apc = "panic" => ~InYearRange

\* 2001-01-01 minus the 366 days of the leap year 2000
C11_BackOverLeapYear ==
    /\ apc = "add_days_back"
    /\ a_date = Date(2001, 1, 1) /\ a_days = -366
    /\ a_ret.date = Date(2000, 1, 1)
    /\ a_diff = -366

\* C12: for all valid Date d, d.add_week().subtract(d) = 7 and
\* d.subtract_week().subtract(d) = -7; both calls return a Date, none panics.
C12_WeekArithmetic ==
    /\ apc \notin {"panic_add_week", "panic_subtract_week"}
    /\ apc = "add_week_back" => a_diff = 7
    /\ apc = "subtract_week_back" => a_diff = -7

\* C12 as it holds: the same for every d whose week neighbour is a date of the
\* years 1..=65535; add_week panics exactly on the last seven days of 65535,
\* subtract_week exactly on the first seven days of the year 1.
C12_WeekArithmeticInRange ==
    /\ apc = "add_week_back" => a_diff = 7
    /\ apc = "subtract_week_back" => a_diff = -7
    /\ apc = "panic_add_week" =>
           a_date.year = U16_MAX /\ a_date.month = 12 /\ a_date.day >= 25
    /\ apc = "panic_subtract_week" =>
           a_date.year = 1 /\ a_date.month = 1 /\ a_date.day <= 7
    /\ apc \in {"add_week", "add_week_back"} =>
           ~(a_date.year = U16_MAX /\ a_date.month = 12 /\ a_date.day >= 25)
    /\ apc \in {"subtract_week", "subtract_week_back"} =>
           ~(a_date.year = 1 /\ a_date.month = 1 /\ a_date.day <= 7)

\* a week back over the leap day of 2000
C12_WeekBackOverLeapDay ==
    /\ apc = "subtract_week_back"
    /\ a_date = Date(2000, 3, 1)
    /\ a_ret.date = Date(2000, 2, 23)
    /\ a_diff = -7

\* The number of the day d counted from 0001-01-01 = 1 by the calendar rules:
\* 365 days a year, one more in every 4th year except the 100th but the 400th,
\* and the lengths of the months before d's month.
calendar_month_length(y, m) ==
    IF m = 2
    THEN IF (y % 4 = 0 /\ y % 100 # 0) \/ y % 400 = 0 THEN 29 ELSE 28
    ELSE IF m \in {4, 6, 9, 11} THEN 30 ELSE 31

RECURSIVE calendar_days_before_month(_, _)
calendar_days_before_month(y, m) ==
    IF m <= 1 THEN 0
    ELSE calendar_days_before_month(y, m - 1) + calendar_month_length(y, m - 1)

calendar_day_number(d) ==
    365 * (d.year - 1) + ((d.year - 1) \div 4) - ((d.year - 1) \div 100)
    + ((d.year - 1) \div 400) + calendar_days_before_month(d.year, d.month) + d.day

\* a is later than b in (year, month, day) order
Later(a, b) ==
    \/ a.year > b.year
    \/ a.year = b.year /\ a.month > b.month
    \/ a.year = b.year /\ a.month = b.month /\ a.day > b.day

\* C13: a.subtract(b) is the number of calendar days from b to a: positive
\* exactly when a is later than b, zero exactly when a = b, right across month
\* ends, year ends and leap years; 2025-12-29 - 2025-12-22 = 7,
\* 2029-01-04 - 2028-12-29 = 6, 2026-01-04 - 2025-12-29 = 6,
\* 2000-12-31 - 2000-01-01 = 365.
C13_SubtractCountsDays ==
    /\ apc # "panic_subtract"
    /\ apc = "subtract" =>
           /\ a_ret.int = calendar_day_number(a_date) - calendar_day_number(a_other)
           /\ (a_ret.int > 0) = Later(a_date, a_other)
           /\ (a_ret.int = 0) = (a_date = a_other)
           /\ (a_date = Date(2025, 12, 29) /\ a_other = Date(2025, 12, 22)) => a_ret.int = 7
           /\ (a_date = Date(2029, 1, 4) /\ a_other = Date(2028, 12, 29)) => a_ret.int = 6
           /\ (a_date = Date(2026, 1, 4) /\ a_other = Date(2025, 12, 29)) => a_ret.int = 6
           /\ (a_date = Date(2000, 12, 31) /\ a_other = Date(2000, 1, 1)) => a_ret.int = 365

\* the difference over the year end of the leap year 2028
C13_CrossLeapYear ==
    /\ apc = "subtract"
    /\ a_date = Date(2029, 1, 4) /\ a_other = Date(2028, 12, 29)
    /\ a_ret.int = 6

\* the bounds of a valid Gregorian date
ValidDate(d) ==
    /\ d.year >= 1 /\ d.year <= U16_MAX
    /\ 1 <= d.month /\ d.month <= 12
    /\ 1 <= d.day /\ d.day <= calendar_month_length(d.year, d.month)

\* C14: Date::try_new(y, m, d) succeeds exactly when y >= 1, 1 <= m <= 12 and
\* 1 <= d <= the length of the month (February has 29 days exactly when
\* y % 4 = 0 and (y % 100 # 0 or y % 400 = 0)), and every Date returned by
\* add_days, from_days and DateStream::next from a valid Date is within the
\* same bounds.
C14_DatesAreValid ==
    /\ apc = "try_new" => (a_ret.kind = "Date") = ValidDate(a_date)
    /\ a_ret.kind = "Date" => ValidDate(a_ret.date)
    /\ \A k \in 1..Len(s_pulled) : ValidDate(s_pulled[k])

\* What holds of every build: try_new, add_days and from_days (without the
\* DateStream, which can leave the bounds at the end of the year 65535).
DatesAreValidBesideStream ==
    /\ apc = "try_new" => (a_ret.kind = "Date") = ValidDate(a_date)
    /\ a_ret.kind = "Date" => ValidDate(a_ret.date)
    /\ \A k \in 1..Len(s_pulled) :
           ValidDate(s_pulled[k]) \/ \E j \in 1..(k - 1) : s_pulled[j] = LastDate

\* the stream pulled past 65535-12-31 in a build without overflow checks
C14_YearZeroPulled ==
    /\ apc = "stream"
    /\ a_date = LastDate
    /\ s_pulled = <<LastDate, Date(0, 1, 1)>>

\* C15: a DateStream started at a valid date s never ends, and its k-th pulled
\* value (k = 0, 1, 2, ...) is s.add_days(k): the first is s itself and every
\* pull advances by one calendar day.
C15_StreamIsAddDays ==
    /\ apc # "panic_stream"
    /\ \A k \in 1..Len(s_pulled) :
           /\ add_days_returns(a_date, k - 1)
           /\ s_pulled[k] = add_days(a_date, k - 1)

\* What holds of every build: the values pulled up to 65535-12-31 are s, s + 1
\* day, ..., and the stream panics only when its last_date is 65535-12-31.
StreamIsAddDaysInRange ==
    /\ apc = "panic_stream" => s_last = LastDate
    /\ \A k \in 1..Len(s_pulled) :
           (calculate_total_days(a_date) + k - 1 <= calculate_total_days(LastDate)) =>
               /\ add_days_returns(a_date, k - 1)
               /\ s_pulled[k] = add_days(a_date, k - 1)

\* seven values pulled over the leap day of 2000
C15_WeekOverLeapDay ==
    /\ apc = "stream"
    /\ s_pulled = <<Date(2000, 2, 28), Date(2000, 2, 29), Date(2000, 3, 1), Date(2000, 3, 2),
                    Date(2000, 3, 3), Date(2000, 3, 4), Date(2000, 3, 5)>>

\* the first pull from 65535-12-31 in a build with overflow checks
C15_FirstPullPanics ==
    /\ apc = "panic_stream"
    /\ a_date = LastDate
    /\ s_pulled = <<>>

\* the number an ASCII digit stands for, -1 for any other byte
digit_value(b) == IF 48 <= b /\ b <= 57 THEN b - 48 ELSE -1

\* the bytes from..to are ASCII digits and read as the decimal number n
ReadsAs(bytes, from, to, n) ==
    /\ \A i \in from..to : digit_value(bytes[i]) >= 0
    /\ n = IF to - from = 3
           THEN 1000 * digit_value(bytes[from]) + 100 * digit_value(bytes[from + 1])
                + 10 * digit_value(bytes[from + 2]) + digit_value(bytes[from + 3])
           ELSE 10 * digit_value(bytes[from]) + digit_value(bytes[to])

calendar_weekday(d) == ((calendar_day_number(d) - 1) % 7) + 1

\* week_start is w_moves steps of exactly 7 days away from the day number `from`
MovedByWeeks(from) ==
    \E k \in -w_moves..w_moves :
        /\ (k + w_moves) % 2 = 0
        /\ calendar_day_number(week_start) = from + 7 * k

\* C16: calendar.week_start is a Monday in every state of the running
\* application: get_week_start returns today minus (ordinal - 1) days, with
\* ordinal 7 for Sunday and the platform weekday otherwise (Friday 2025-10-10
\* gives 2025-10-06), and add_week / subtract_week move it by exactly 7 days.
C16_WeekStartIsMonday ==
    wpc = "running" =>
        /\ calendar_weekday(week_start) = 1
        /\ MovedByWeeks(calendar_day_number(w_today) - (calendar_weekday(w_today) - 1))

\* What holds: the same when the UTC offset is the same at `now` and at the
\* Monday, or when `now` is not within an hour of midnight.
WeekStartIsMondayWithoutShift ==
    /\ (wpc = "running" /\ (w_shift = 0 \/ w_hour = 12)) =>
           /\ calendar_weekday(week_start) = 1
           /\ MovedByWeeks(calendar_day_number(w_today) - (calendar_weekday(w_today) - 1))
    /\ wpc = "running" =>
           MovedByWeeks(calendar_day_number(get_week_start(w_today, w_hour, w_shift)))

\* the example of test_get_start_week
C16_FridayExample ==
    /\ wpc = "running" /\ w_moves = 0
    /\ w_today = Date(2025, 10, 10) /\ w_hour = 0 /\ w_shift = 0
    /\ week_start = Date(2025, 10, 6)

\* Sunday 2025-10-26 23:00, the day daylight saving time ended in Europe: the
\* instant six days earlier is 00:00 of Tuesday 2025-10-21 in local time
C16_TuesdayAfterClockChange ==
    /\ wpc = "running" /\ w_moves = 0
    /\ w_today = Date(2025, 10, 26) /\ w_hour = 23 /\ w_shift = 1
    /\ week_start = Date(2025, 10, 21)

(***************************************************************************)
(* The duration guard and the agenda lines (SpecObtain)                    *)
(***************************************************************************)
\* C18: once obtain has passed its first statement, a duration_days above 35
\* has made it return Error::DurationIsTooBig with neither the data source
\* nor the JSON parser called, and a duration_days of 35 or less has not: the
\* source has been called and the result is never DurationIsTooBig.
C18_DurationGuard ==
    opc \in {"loop", "returned"} =>
        IF duration_days > 35
        THEN /\ opc = "returned"
             /\ o_result = "DurationIsTooBig"
             /\ source_calls = 0
             /\ parse_calls = 0
        ELSE /\ o_result # "DurationIsTooBig"
             /\ source_calls = 1

C18_ThirtySixRefused ==
    /\ opc = "returned"
    /\ duration_days = 36
    /\ o_result = "DurationIsTooBig"
    /\ source_calls = 0

\* the pieces of a split that are not empty
NonEmptyPieces(pieces) == SelectSeq(pieces, LAMBDA p : p # "")

\* how many lines of the whole output are not empty: the ones parsed and the
\* ones left in the split
NonEmptyLineCount == Len(o_dates) + Len(NonEmptyPieces(o_rest))

\* the i-th item of `agendas` (i from 1) carries the date start + (i - 1) days
PairedWithConsecutiveDates ==
    \A i \in 1..Len(o_dates) : o_dates[i] = add_days(WeekFrom, i - 1)

\* C19: when obtain returns Ok, the lines it has parsed are the first 7
\* non-empty lines of the output (all of them when there are fewer), the i-th
\* paired with start + i days.
C19_FirstSevenNonEmptyLines ==
    (opc = "returned" /\ o_result = "Ok") =>
        /\ Len(o_dates) = IF NonEmptyLineCount < AGENDA_DAYS
                          THEN NonEmptyLineCount ELSE AGENDA_DAYS
        /\ PairedWithConsecutiveDates

\* C19 as the code has it: obtain parses the pieces of the split that come
\* before the first empty piece, 7 at most, the i-th paired with start + i
\* days; with fewer than 7 parsed the split has ended or its next piece is
\* empty, whatever follows that piece, and the result is Ok all the same.
C19_LinesBeforeFirstEmptyPiece ==
    /\ Len(o_dates) <= AGENDA_DAYS
    /\ PairedWithConsecutiveDates
    /\ opc = "returned" =>
          /\ o_result \in {"Ok", "Parse", "Io", "InvalidUnicode", "DurationIsTooBig"}
          /\ o_result = "Ok" =>
                /\ parse_calls = Len(o_dates)
                /\ Len(o_dates) < AGENDA_DAYS => (o_rest = <<>> \/ Head(o_rest) = "")
          /\ o_result # "Ok" => o_rest = <<>>

C19_EighthLineLeft ==
    /\ opc = "returned" /\ o_result = "Ok"
    /\ Len(o_dates) = AGENDA_DAYS
    /\ o_dates[AGENDA_DAYS] = Date(2025, 11, 2)
    /\ o_rest = <<"[]", "">>

C19_LineAfterEmptyPieceLeft ==
    /\ opc = "returned" /\ o_result = "Ok"
    /\ Len(o_dates) = 2
    /\ o_rest = <<"", "[]">>

(***************************************************************************)
(* The rectangles of the short events (SpecRender)                         *)
(***************************************************************************)
\* calendar days from first_date to the date of an event
day_offset(event) ==
    calendar_day_number(event.start_date) - calendar_day_number(r_first_date)

\* the rectangle the formulas give the event with the lane pair (lane, total)
ShortEventRectangle(event, lane, total) ==
    LET lane_width == f32_div(r_arguments.column_width, as_f32(total))
        start_minutes == minutes_from_midnight(event.start_time)
        end_minutes == minutes_from_midnight(event.end_time)
    IN  Rectangle(
            Point(f32_add(f32_add(f32_mul(as_f32(day_offset(event)),
                                          r_arguments.column_width),
                                  r_arguments.offset_x),
                          f32_mul(as_f32(lane), lane_width)),
                  f32_add(f32_mul(f32(start_minutes, 1440), r_arguments.column_height),
                          r_arguments.offset_y)),
            Point(lane_width,
                  f32_mul(f32(end_minutes - start_minutes, 1440),
                          r_arguments.column_height)),
            event.title)

RectanglesAsStated ==
    \A i \in 1..Len(r_ret) :
        r_ret[i] = ShortEventRectangle(r_events[r_ret[i].text], r_lanes[i][1], r_lanes[i][2])

\* the assertion has failed exactly when the event taken last is on a day
\* before first_date
AssertionAsStated ==
    (rpc = "panic_days") <=>
        (r_events # <<>> /\ day_offset(r_events[Len(r_events)]) < 0)

\* C20: every rectangle of a short event on date D with the lane pair (lane,
\* total) is at x = (D - first_date) * column_width + offset_x + lane *
\* (column_width / total), y = start_minutes / 1440 * column_height + offset_y
\* and has the width column_width / total and the height (end_minutes -
\* start_minutes) / 1440 * column_height; the function panics exactly on an
\* event dated before first_date.
C20_ShortEventRectangle == rpc # "long" => (RectanglesAsStated /\ AssertionAsStated)

\* the same for the week of 2025-09-29, over whose days the day offsets of
\* lib.rs are the calendar ones
ShortEventRectangleInAutumn ==
    r_first_date = Date(2025, 9, 29) => C20_ShortEventRectangle

\* test_top_left_event
C20_TopLeftEvent ==
    /\ rpc = "returned"
    /\ r_first_date = Date(2025, 9, 29)
    /\ r_arguments = Arguments(as_f32(125), as_f32(600), as_f32(0), as_f32(0))
    /\ Len(r_events) = 1
    /\ r_events[1].start_date = Date(2025, 9, 29)
    /\ r_events[1].start_time = Time(0, 0) /\ r_events[1].end_time = Time(1, 0)
    /\ r_ret = <<Rectangle(Point(as_f32(0), as_f32(0)), Point(as_f32(125), as_f32(25)), 1)>>

\* three lanes side by side
C20_ThreeLanes ==
    /\ rpc = "returned"
    /\ Len(r_ret) = 3
    /\ r_lanes = <<<<0, 3>>, <<1, 3>>, <<2, 3>>>>
    /\ C20_ShortEventRectangle

\* an event on Saturday 2025-02-01 in the week of Monday 2025-01-27
C20_FebruaryPanics ==
    /\ rpc = "panic_days"
    /\ r_first_date = Date(2025, 1, 27)
    /\ r_events[Len(r_events)].start_date = Date(2025, 2, 1)

\* an event on 2026-01-03 in the week of 2025-12-29 is put 36 columns to the
\* right
C20_JanuaryOffGrid ==
    /\ rpc = "returned"
    /\ r_first_date = Date(2025, 12, 29)
    /\ r_arguments.column_width = as_f32(125)
    /\ Len(r_ret) = 1
    /\ r_events[1].start_date = Date(2026, 1, 3)
    /\ r_ret[1].at.x = as_f32(36 * 125)

(***************************************************************************)
(* The rectangles of the long events (SpecRender)                          *)
(***************************************************************************)
\* the x the formula gives a date and a time: the calendar days from
\* first_date plus the fraction of the day, in columns
LongEventX(d, time) ==
    f32_add(f32_mul(f32_add(as_f32(calendar_day_number(d)
                                   - calendar_day_number(r_first_date)),
                            f32(minutes_from_midnight(time), 1440)),
                    r_arguments.column_width),
            r_arguments.offset_x)

LongEventSpanAsStated(i) ==
    LET event == r_events[i]
        start_x == LongEventX(event.start_date, event.start_time)
    IN  /\ r_ret[i].at.x = start_x
        /\ r_ret[i].size.x = f32_sub(LongEventX(event.end_date, event.end_time), start_x)

\* the rectangle is one of the `total` lanes of the panel, for some lane pair
LongEventLaneAsStated(i) ==
    \E total \in 1..Len(r_events) : \E lane \in 0..(total - 1) :
        LET lane_height == f32_div(r_arguments.column_height, as_f32(total))
        IN  /\ r_ret[i].size.y = lane_height
            /\ r_ret[i].at.y = f32_add(r_arguments.offset_y,
                                       f32_mul(as_f32(lane), lane_height))

\* absolute position of a date and time, in minutes of the calendar
calendar_minutes(d, time) ==
    calendar_day_number(d) * 1440 + minutes_from_midnight(time)

\* two long events whose time spans intersect: they are in one clash group,
\* in different lanes
LongEventsClash(i, j) ==
    /\ calendar_minutes(r_events[i].start_date, r_events[i].start_time)
         < calendar_minutes(r_events[j].end_date, r_events[j].end_time)
    /\ calendar_minutes(r_events[j].start_date, r_events[j].start_time)
         < calendar_minutes(r_events[i].end_date, r_events[i].end_time)

OverlapVertically(a, b) ==
    /\ f32_lt(a.at.y, f32_add(b.at.y, b.size.y))
    /\ f32_lt(b.at.y, f32_add(a.at.y, a.size.y))

\* C21: a long event's rectangle starts at x = ((start_date - first_date) +
\* start_minutes / 1440) * column_width + offset_x, its width is the same
\* expression for the end minus that x, its height is column_height /
\* total_lanes and its y is offset_y + lane * (column_height / total_lanes),
\* so the rectangles of two long events of one clash group do not overlap
\* vertically.
C21_LongEventRectangle ==
    rpc = "long" =>
        /\ \A i \in 1..Len(r_ret) : LongEventSpanAsStated(i) /\ LongEventLaneAsStated(i)
        /\ \A i, j \in 1..Len(r_ret) :
               (i # j /\ LongEventsClash(i, j)) => ~OverlapVertically(r_ret[i], r_ret[j])

\* the spans alone, for the weeks over whose days the day offsets of lib.rs
\* are the calendar ones
LongEventSpanInAutumn ==
    (rpc = "long" /\ r_first_date \in {Date(2025, 9, 29), Date(2025, 11, 3)})
        => \A i \in 1..Len(r_ret) : LongEventSpanAsStated(i)

\* test_create_long_event_rectangle
C21_TestExample ==
    /\ rpc = "long"
    /\ r_first_date = Date(2025, 11, 3)
    /\ r_arguments = Arguments(as_f32(100), as_f32(50), as_f32(125), as_f32(70))
    /\ Len(r_ret) = 1
    /\ r_events[1].start_date = Date(2025, 11, 4) /\ r_events[1].end_date = Date(2025, 11, 6)
    /\ r_ret[1].at.x = as_f32(225) /\ r_ret[1].size.x = as_f32(200)

\* two long events of one clash group are drawn on top of each other
C21_TwoLongEventsOverlap ==
    /\ rpc = "long"
    /\ r_first_date = Date(2025, 11, 3)
    /\ Len(r_ret) = 2
    /\ LongEventsClash(1, 2)
    /\ LongEventSpanAsStated(1) /\ LongEventSpanAsStated(2)
    /\ OverlapVertically(r_ret[1], r_ret[2])

(***************************************************************************)
(* The choice of the lane (SpecClash)                                      *)
(***************************************************************************)
\* the members of the open group that have ended by `start`
Finished(clash, start) ==
    {k \in 1..Len(clash.event_ends) : clash.event_ends[k] <= start}

\* those of them with the smallest start - end
Nearest(clash, start) ==
    {k \in Finished(clash, start) :
        \A j \in Finished(clash, start) : clash.event_ends[j] <= clash.event_ends[k]}

\* the first of a set of members, in group order
FirstOf(members) == CHOOSE k \in members : \A j \in members : k <= j

\* a step of the loop that takes an event colliding with the open group
CollidingStep ==
    /\ cpc = "loop" /\ cpc' = "loop" /\ Len(events') = Len(events) + 1
    /\ clash_condition(condition, events'[Len(events')].start_date # current_date,
                       total_event_start(events'[Len(events')], ClashStart),
                       last_clash.end)

\* C22: a colliding event starting at s gets the lane of the member of the
\* open group with the smallest s - end among those with end <= s, the first
\* such member in group order when several have it, and the lane count stays;
\* only when no member has end <= s it gets the new lane lane_count and the
\* lane count grows by one.
C22_NearestFit ==
    [][CollidingStep =>
          LET start == total_event_start(events'[Len(events')], ClashStart)
          IN  IF Finished(last_clash, start) = {}
              THEN /\ assigned'[Len(assigned')] = lane_count
                   /\ lane_count' = lane_count + 1
              ELSE /\ assigned'[Len(assigned')]
                         = last_clash.lanes[FirstOf(Nearest(last_clash, start))]
                   /\ lane_count' = lane_count]_vars

\* the same with any of the nearest members, not the first of them
NearestFitAnyOfTheNearest ==
    [][CollidingStep =>
          LET start == total_event_start(events'[Len(events')], ClashStart)
          IN  Finished(last_clash, start) # {} =>
                  assigned'[Len(assigned')]
                      \in {last_clash.lanes[k] : k \in Nearest(last_clash, start)}]_vars

\* what the fold does keep: the lane of a member that has ended, and a new
\* lane only when there is none
LaneOfAFinishedMember ==
    [][CollidingStep =>
          LET start == total_event_start(events'[Len(events')], ClashStart)
          IN  IF Finished(last_clash, start) = {}
              THEN /\ assigned'[Len(assigned')] = lane_count
                   /\ lane_count' = lane_count + 1
              ELSE /\ assigned'[Len(assigned')]
                         \in {last_clash.lanes[k] : k \in Finished(last_clash, start)}
                   /\ lane_count' = lane_count]_vars

(***************************************************************************)
(* C23: short events of different days never share a clash group.  In      *)
(* find_clashes with short_event_clash_condition and in                    *)
(* short_event_rectangles, an event whose start_date differs from the day  *)
(* of the event before it flushes the current group (every earlier event   *)
(* is in the result) and starts a new group in lane 0; an event that is    *)
(* alone on its day has lane 0 of 1 and a rectangle of the full column     *)
(* width.  With long_event_clash_condition the group is flushed exactly    *)
(* when the start is not before the end of the group, whatever the day.    *)
(* Events outside the week, on which the assertions stop the function,     *)
(* are not counted.                                                        *)
(***************************************************************************)
DayChanges ==
    /\ events # <<>>
    /\ Len(events') = Len(events) + 1
    /\ events'[Len(events')].start_date # events[Len(events)].start_date

NewDayFlushesClash ==
    (condition = "short" /\ DayChanges /\ cpc' = "loop") =>
        /\ Len(ret') = Len(events)
        /\ last_clash'.lanes = <<0>>
        /\ lane_count' = 1

NewDayFlushesAtasco ==
    (condition = "short" /\ DayChanges /\ rpc' = "loop") =>
        /\ Len(r_ret') = Len(r_events)
        /\ last_atasco'.lanes = <<0>>
        /\ r_lane_count' = 1

LongGroupEndDecides ==
    (condition = "long" /\ Len(events') = Len(events) + 1 /\ cpc' = "loop") =>
        LET s == total_event_start(events'[Len(events')], ClashStart)
        IN  IF s < last_clash.end
            THEN ret' = ret /\ Len(last_clash'.lanes) = Len(last_clash.lanes) + 1
            ELSE Len(ret') = Len(events) /\ last_clash'.lanes = <<0>>

AloneOnItsDay(i) ==
    \A j \in 1..Len(events) : j # i => events[j].start_date # events[i].start_date

LoneEventsKeepTheColumn ==
    condition = "short" =>
        /\ cpc = "returned" =>
               \A i \in 1..Len(events) : AloneOnItsDay(i) => ret[i] = <<0, 1>>
        /\ rpc = "returned" =>
               \A i \in 1..Len(r_events) :
                   AloneOnItsDay(i) => /\ r_ret[i].text = events[i].title
                                       /\ r_ret[i].size.x = r_arguments.column_width

C23_DayChangeFlushes ==
    /\ [][NewDayFlushesClash /\ NewDayFlushesAtasco /\ LongGroupEndDecides]_vars
    /\ []LoneEventsKeepTheColumn

\* two events at the same time of day on different days, after an overlapping
\* pair on the first day: both functions returned
C23_SameTimeOnTwoDays ==
    /\ condition = "short"
    /\ cpc = "returned"
    /\ rpc = "returned"
    /\ Len(events) = 3
    /\ events[1].start_date = ClashStart
    /\ events[2].start_date = ClashStart
    /\ events[3].start_date # ClashStart
    /\ events[3].start_time = events[2].start_time
    /\ events[3].end_time = events[2].end_time
    /\ ret = <<<<0, 2>>, <<1, 2>>, <<0, 1>>>>
    /\ r_ret[3].size.x = r_arguments.column_width

\* a long event that starts on the second day inside a group that began on the
\* first day: it joins the group
C23_LongGroupOverTwoDays ==
    /\ condition = "long"
    /\ Len(events) = 2
    /\ events[2].start_date # events[1].start_date
    /\ Len(last_clash.lanes) = 2
    /\ ret = <<>>

(***************************************************************************)
(* C24: the time-based algorithm (find_clashes with                        *)
(* short_event_clash_condition) and the rectangle-based algorithm          *)
(* (short_event_rectangles) are equivalent: for a start-ordered list of    *)
(* one-day short events of one week, the i-th rectangle belongs to the     *)
(* i-th event, and its lane (the x offset within the column divided by     *)
(* the width) and lane count (column_width divided by the width) are the   *)
(* i-th <<lane, total_lanes>> of find_clashes.                             *)
(***************************************************************************)
\* the left edge of the column of the i-th event
ColumnX(i) ==
    calculate_event_point_x(r_first_date, events[i].start_date,
                            r_arguments.column_width, r_arguments.offset_x)

RectangleLane(i) ==
    f32_div(f32_sub(r_ret[i].at.x, ColumnX(i)), r_ret[i].size.x)

RectangleLaneCount(i) == f32_div(r_arguments.column_width, r_ret[i].size.x)

BothReturned == condition = "short" /\ cpc = "returned" /\ rpc = "returned"

C24_SameLanes ==
    BothReturned =>
        /\ Len(r_ret) = Len(events)
        /\ Len(ret) = Len(events)
        /\ \A i \in 1..Len(events) :
              /\ r_ret[i].text = events[i].title
              /\ RectangleLane(i) = as_f32(ret[i][1])
              /\ RectangleLaneCount(i) = as_f32(ret[i][2])

\* the five events of test_collision, as far as their overlaps go: lanes 0, 1, 2
\* and then 0 and 1 again, of 3, from both algorithms
C24_TestCollision ==
    /\ BothReturned
    /\ ret = <<<<0, 3>>, <<1, 3>>, <<2, 3>>, <<0, 3>>, <<1, 3>>>>
    /\ \A i \in 1..5 : /\ RectangleLane(i) = as_f32(ret[i][1])
                       /\ RectangleLaneCount(i) = as_f32(3)

(***************************************************************************)
(* C25: in obtain with duration_days <= 35 the data source is invoked      *)
(* exactly once per fetch; after an I/O error of the source the result is  *)
(* Error::Io and the parser is never invoked; after bytes that are not     *)
(* UTF-8 the result is Error::InvalidUnicode; when a line fails to parse   *)
(* the result is Error::Parse and no events are returned, not even those   *)
(* of the lines parsed before it.                                          *)
(***************************************************************************)
C25_OneFetch ==
    /\ source_calls <= 1
    /\ (opc \in {"loop", "returned", "panic"} /\ duration_days <= MAX_DURATION_DAYS) =>
           source_calls = 1
    /\ o_source = "io_error" =>
           o_result = "Io" /\ opc = "returned" /\ parse_calls = 0
    /\ o_source = "not_utf8" =>
           o_result = "InvalidUnicode" /\ opc = "returned" /\ parse_calls = 0
    /\ o_result \in {"Io", "InvalidUnicode", "Parse"} => short = <<>> /\ long = <<>>
    /\ o_result = "Parse" => opc = "returned" /\ parse_calls = Len(o_dates) + 1

\* the second line fails to parse after a line that is not one of PlainLines
\* was parsed
C25_SecondLineFails ==
    /\ o_result = "Parse"
    /\ source_calls = 1
    /\ parse_calls = 2
    /\ Len(o_dates) = 1
    /\ ~o_plain

C25_SourceFails ==
    /\ o_source = "io_error"
    /\ o_result = "Io"
    /\ source_calls = 1

(***************************************************************************)
(* C26: calculate_biggest_clash returns the greatest total_lanes of the    *)
(* lane list of the EventData, and 0 for an empty list; for every          *)
(* EventData that get_lanes produces it does not exceed the number of      *)
(* events (the assertion of the main loop on long_event_clash_size).       *)
(***************************************************************************)
C26_BiggestClash ==
    cpc = "done" =>
        LET biggest == calculate_biggest_clash(event_data)
            totals == {event_data.lanes[i][2] : i \in 1..Len(event_data.lanes)}
        IN  /\ event_data.lanes = <<>> => biggest = 0
            /\ event_data.lanes # <<>> =>
                   biggest \in totals /\ \A t \in totals : t <= biggest
            /\ biggest <= Len(event_data.event_ranges)

\* three long events: a group of two lanes, then a group of one
C26_TwoOfThree ==
    /\ cpc = "done"
    /\ condition = "long"
    /\ event_data.lanes = <<<<0, 2>>, <<1, 2>>, <<0, 1>>>>
    /\ calculate_biggest_clash(event_data) = 2

C26_NoEvents ==
    /\ cpc = "done"
    /\ event_data.lanes = <<>>
    /\ calculate_biggest_clash(event_data) = 0

(***************************************************************************)
(* C27: for the short and the long list that obtain produces from the      *)
(* agenda of the week starting at `from`, the assertions of find_clashes   *)
(* hold for every event: 0 <= start_date - from < 7 and                    *)
(* 0 <= end_date - from < 7, so that get_lanes does not panic, and the     *)
(* absolute minutes day_offset * 1440 + minutes fit in u16.                *)
(***************************************************************************)
FitsU16(event, start_date) ==
    /\ total_minutes(event.start_time)
           + root_subtract(event.start_date, start_date) * MINUTES_PER_DAY <= U16_MAX
    /\ total_minutes(event.end_time)
           + root_subtract(event.end_date, start_date) * MINUTES_PER_DAY <= U16_MAX

GetLanesAccepts(list) ==
    \A i \in 1..Len(list) :
        /\ week_asserts(list[i], WeekFrom)
        /\ FitsU16(list[i], WeekFrom)

C27_ListsWithinWeek ==
    o_result = "Ok" => GetLanesAccepts(short) /\ GetLanesAccepts(long)

\* what does hold: the short list passes, and every long event starts in the
\* week
ShortListWithinWeek ==
    o_result = "Ok" =>
        /\ GetLanesAccepts(short)
        /\ \A i \in 1..Len(long) : root_subtract(long[i].start_date, WeekFrom) \in 0..6

\* a whole-day event and the two halves of an event over midnight, all
\* inside the week
C27_WeekOfShortEvents ==
    /\ o_result = "Ok"
    /\ Len(short) = 2
    /\ Len(long) = 1
    /\ GetLanesAccepts(short)
    /\ GetLanesAccepts(long)

\* the event that ends a week after `from` is in the long list
C27_LongEventPastTheWeek ==
    /\ o_result = "Ok"
    /\ \E i \in 1..Len(long) : root_subtract(long[i].end_date, WeekFrom) = 7

(***************************************************************************)
(* C28: every event that goes into the short list has                      *)
(* start_date = end_date: a Short event has a duration of 0 days and each  *)
(* cropped half of a CrossNight event lies on one day, so the              *)
(* assert_eq!(event.start_date, event.end_date) of short_event_rectangles  *)
(* and create_short_event_rectangle does not fail on classified events.    *)
(***************************************************************************)
KeptAsShort == fpc = "returned" /\ f_result.kind = "Some" /\ f_result.is_short

C28_ShortOnOneDay ==
    KeptAsShort => f_result.event.start_date = f_result.event.end_date

\* what does hold: the halves of a CrossNight event lie on one day, and a
\* Short event is one for which Date::subtract of lib.rs returns 0
ShortByComputedDays ==
    KeptAsShort =>
        \/ f_type = "CrossNight" /\ f_result.event.start_date = f_result.event.end_date
        \/ f_type = "Short" /\ f_result.event = f_event
                            /\ root_subtract(f_event.end_date, f_event.start_date) = 0

\* an event of one day, kept as short
C28_OneDayEvent ==
    /\ KeptAsShort
    /\ f_type = "Short"
    /\ f_event.start_date = Date(2025, 10, 27)
    /\ f_event.end_date = Date(2025, 10, 27)

\* an event of thirty days, 2025-01-02 to 2025-02-01, kept as short
C28_ThirtyDaysShort ==
    /\ KeptAsShort
    /\ f_type = "Short"
    /\ f_result.event.start_date = Date(2025, 1, 2)
    /\ f_result.event.end_date = Date(2025, 2, 1)

(***************************************************************************)
(* C29: the two implementations of the date difference agree: for valid    *)
(* dates a, b of the years 1970 to 2100, Date::subtract of lib.rs, built   *)
(* on days_from_epoch, returns what the rata-die based Date::subtract of   *)
(* date.rs returns, the number of calendar days from b to a.               *)
(***************************************************************************)
BothSubtracted ==
    /\ apc = "subtract"
    /\ a_date.year \in EPOCH_START..2100
    /\ a_other.year \in EPOCH_START..2100

C29_SubtractAgrees == BothSubtracted => a_diff = a_ret.int

\* what does hold: the two agree on dates of one year that are both in
\* January or both after it
SubtractAgreesInsideYear ==
    (/\ BothSubtracted
     /\ a_date.year = a_other.year
     /\ (a_date.month = 1) = (a_other.month = 1)) => a_diff = a_ret.int

\* 2026-01-04 minus 2025-12-29: six days, and 37 by days_from_epoch
C29_NewYearWeek ==
    /\ BothSubtracted
    /\ a_date = Date(2026, 1, 4)
    /\ a_other = Date(2025, 12, 29)
    /\ a_ret.int = 6
    /\ a_diff = 37

\* 2000-03-01 minus 2000-02-28: two days by both
C29_LeapDayCounted ==
    /\ BothSubtracted
    /\ a_date = Date(2000, 3, 1)
    /\ a_other = Date(2000, 2, 28)
    /\ a_ret.int = 2
    /\ a_diff = 2

(***************************************************************************)
(* C30: in the main loop no stale data is rendered.  At every render step  *)
(* is_week_switched is false, the agenda of week_data was fetched for the  *)
(* current week_start, and both rectangle caches are present and were      *)
(* computed after the last change of the week (PageUp, PageDown), the      *)
(* window size, the scroll offset (Up, Down) or the zoom (Minus, Equals),  *)
(* from what the loop holds now; each such event clears both caches        *)
(* before the next render (the key and window events at once, a change of  *)
(* week by raising is_week_switched, which the refetch answers), and a     *)
(* failed refetch ends the loop: no step follows it.                       *)
(***************************************************************************)
Fresh(cache) ==
    /\ cache # <<>>
    /\ cache[1] = RectanglesOf(adjustment, window_size)

RenderedFresh ==
    mpc = "render" =>
        /\ ~is_week_switched
        /\ week_data = m_week_start
        /\ Fresh(short_event_rectangles_opt) /\ ~short_stale
        /\ Fresh(long_event_rectangles_opt) /\ ~long_stale

EventClearsCaches ==
    (mpc = "poll" /\ mpc' = "poll") =>
        /\ m_event' \in {"WindowResized", "Up", "Down", "Minus", "Equals"} =>
               /\ short_event_rectangles_opt' = <<>>
               /\ long_event_rectangles_opt' = <<>>
        /\ m_event' \in {"PageUp", "PageDown"} => is_week_switched'

RefetchClearsCaches ==
    (mpc = "update" /\ is_week_switched) =>
        \/ mpc' = "failed"
        \/ /\ mpc' = "view"
           /\ short_event_rectangles_opt' = <<>>
           /\ long_event_rectangles_opt' = <<>>
           /\ week_data' = m_week_start

FailureEndsTheLoop == mpc # "failed"

C30_NoStaleRender ==
    /\ []RenderedFresh
    /\ [][EventClearsCaches /\ RefetchClearsCaches /\ FailureEndsTheLoop]_vars

\* a render of the week after MainStart, zoomed in and scrolled down, in a
\* window that was resized
C30_NextWeekRendered ==
    /\ mpc = "render"
    /\ m_week_start = Date(2025, 11, 10)
    /\ week_data = Date(2025, 11, 10)
    /\ window_size = <<1024, 768>>
    /\ adjustment = SurfaceAdjustment(GRID_SCALE_STEP, -GRID_OFFSET_STEP)
    /\ Fresh(short_event_rectangles_opt)
    /\ Fresh(long_event_rectangles_opt)
    /\ short_event_rectangles_opt[1].week_start = Date(2025, 11, 10)

\* the refetch after a change of week failed
C30_RefetchFailed ==
    /\ mpc = "failed"
    /\ is_week_switched
    /\ week_data # m_week_start

====
